---- MODULE Spec2Model ----
(***************************************************************************)
(* A model of the 7z container codec of sevenz-rust2: the archive writer   *)
(* (src/writer.rs, src/writer/unpack_info.rs), the header parser and the   *)
(* archive reader (src/reader.rs), the block model (src/block.rs) and the  *)
(* error re-tagging (src/error.rs).  Headers are modelled byte by byte.    *)
(***************************************************************************)
EXTENDS Integers, Sequences, FiniteSets, TLC

(***************************************************************************)
(* Bounds of the model.                                                    *)
(***************************************************************************)
MaxFiles == 3
MaxBatch == 2

VARIABLES
    overflow_checks,    \* the build panics on integer overflow (debug profile)
    writer,             \* ArchiveWriter: content_methods, files, pack_info, unpack_info, output
    pushed,             \* what the caller handed to the writer: the entries and their data
    signature_header,   \* the signature header of the archive file
    source,             \* the archive file after the signature header
    reader_password,    \* the password given to the ArchiveReader
    source_fault,       \* reads of the source fail once the archive is open
    archive,            \* the Archive of the ArchiveReader
    end_scan,           \* Archive::read went through try_to_locale_end_header
    pc,                 \* where the caller and the running operation are
    current_block,      \* for_each_entries: the block of the running BlockDecoder
    file_index,         \* the loop variable of the running loop over files
    block_reader,       \* the decode stack of the running BlockDecoder
    calls,              \* the invocations of the callback, in order
    all_true,           \* the callback has returned true every time so far
    outcome,            \* what the last operation returned
    delta_options,      \* DeltaOptions: the distance the caller configured
    delta_properties,   \* the coder properties stored for the delta coder
    delta_writer,       \* the Delta of the DeltaWriter
    delta_reader,       \* the Delta of the DeltaReader
    delta_plain,        \* the bytes written to the DeltaWriter so far
    delta_packed,       \* the bytes the DeltaWriter has put out and the DeltaReader has not read
    delta_unpacked,     \* the bytes read from the DeltaReader so far
    encoder,            \* the chain of create_writer above its output: encoders, output, panic
    encoder_written,    \* the number of bytes the caller has written to the outermost encoder
    encoder_pc,         \* where the caller of the chain is: "data", "flushed", "finished"
    ppmd,               \* Ppmd7Decoder: its ByteReader over the underlying reader, finished
    ppmd_outcome,       \* what the last Ppmd7Decoder::read returned, and what its reader raised
    shared_source,      \* the source behind the ReaderPointer: its length and its position
    pack_readers,       \* the SeekableBoundedReaders of a block, each with what it has yielded
    pack_reads,         \* the reader of the last read, and how often the reads changed reader
    rc,                 \* the RangeDecoder or RangeEncoder of a Pppmd7: its range
    rc_pc,              \* the coder, where it is in a symbol, and its last normalization
    bin_summ,           \* the cell of Pppmd7::bin_summ the binary contexts use
    min_context,        \* the Context the PPMd7 model looks at: summ_freq and its states
    found_state,        \* the index (from 1) of Pppmd7::found_state in the states
    model_pc            \* the last operation on the context, and what it did

archive_vars == <<overflow_checks, writer, pushed, signature_header, source, reader_password,
                  source_fault, archive, end_scan, pc, current_block, file_index, block_reader,
                  calls, all_true, outcome>>

delta_vars == <<delta_options, delta_properties, delta_writer, delta_reader, delta_plain,
                delta_packed, delta_unpacked>>

encoder_vars == <<encoder, encoder_written, encoder_pc>>

ppmd_vars == <<ppmd, ppmd_outcome>>

pack_vars == <<shared_source, pack_readers, pack_reads>>

range_vars == <<rc, rc_pc, bin_summ>>

model_vars == <<min_context, found_state, model_pc>>

ppmd7_vars == <<range_vars, model_vars>>

codec_vars == <<delta_vars, encoder_vars, ppmd_vars, pack_vars, ppmd7_vars>>

vars == <<archive_vars, codec_vars>>

(***************************************************************************)
(* Property ids of the header format (src/archive.rs).                     *)
(***************************************************************************)
K_END == 0
K_HEADER == 1
K_ARCHIVE_PROPERTIES == 2
K_ADDITIONAL_STREAMS_INFO == 3
K_MAIN_STREAMS_INFO == 4
K_FILES_INFO == 5
K_PACK_INFO == 6
K_UNPACK_INFO == 7
K_SUB_STREAMS_INFO == 8
K_SIZE == 9
K_CRC == 10
K_FOLDER == 11
K_CODERS_UNPACK_SIZE == 12
K_NUM_UNPACK_STREAM == 13
K_EMPTY_STREAM == 14
K_EMPTY_FILE == 15
K_ANTI == 16
K_NAME == 17
K_START_POS == 24
K_DUMMY == 25
K_ENCODED_HEADER == 23
MAX_CODER_COUNT == 32

ID_COPY == <<0>>
ID_DELTA == <<3>>
ID_LZMA == <<3, 1, 1>>
ID_BCJ2 == <<3, 3, 1, 27>>
ID_AES256SHA256 == <<6, 241, 7, 1>>

(***************************************************************************)
(* Generic helpers on sequences.                                           *)
(***************************************************************************)
RECURSIVE SumTo(_, _)
SumTo(s, n) == IF n = 0 THEN 0 ELSE SumTo(s, n - 1) + s[n]

SeqSum(s) == SumTo(s, Len(s))

RECURSIVE FlattenTo(_, _)
FlattenTo(ss, n) == IF n = 0 THEN <<>> ELSE FlattenTo(ss, n - 1) \o ss[n]

Flatten(ss) == FlattenTo(ss, Len(ss))

Slice(s, from, len) == SubSeq(s, from + 1, from + len)

Min(a, b) == IF a < b THEN a ELSE b

SetMax(S) == CHOOSE p \in S : \A q \in S : q <= p

SetMin(S) == CHOOSE p \in S : \A q \in S : p <= q

Pow2(n) == 2 ^ n

(***************************************************************************)
(* crc32fast::hash, abstracted to a small checksum with the one property   *)
(* of CRC-32 the code depends on: the checksum of no bytes is 0.           *)
(***************************************************************************)
CrcModulus == 61

RECURSIVE CrcPow(_)
CrcPow(n) ==
    IF n = 0 THEN 1
    ELSE IF n % 2 = 0 THEN (CrcPow(n \div 2) * CrcPow(n \div 2)) % CrcModulus
    ELSE (5 * CrcPow(n - 1)) % CrcModulus

\* the checksum of s[lo..hi]: that of the two halves, combined
RECURSIVE CrcRange(_, _, _)
CrcRange(s, lo, hi) ==
    IF lo > hi THEN 0
    ELSE IF lo = hi THEN (s[lo] + 1) % CrcModulus
    ELSE LET mid == (lo + hi) \div 2
         IN (CrcRange(s, lo, mid) * CrcPow(hi - mid) + CrcRange(s, mid + 1, hi)) % CrcModulus

Crc32(s) == CrcRange(s, 1, Len(s))

(***************************************************************************)
(* Integer encodings of the header.                                        *)
(***************************************************************************)
\* writer.rs write_u64, for values below 2^14 (one or two bytes)
WriteU64(value) ==
    IF value < 128 THEN <<value>>
    ELSE <<128 + (value \div 256), value % 256>>

\* byteorder write_u32::<LittleEndian>
WriteU32(value) ==
    <<value % 256, (value \div 256) % 256, (value \div 65536) % 256, (value \div 16777216) % 256>>

(***************************************************************************)
(* bitset.rs: a BitSet is its set of set bits and its bit_count.           *)
(***************************************************************************)
BitSetNew == [bits |-> {}, bit_count |-> 0]

BitSetWithCapacity(n) == [bits |-> {}, bit_count |-> n]

BitSetContains(bs, v) == v < bs.bit_count /\ v \in bs.bits

BitSetInsert(bs, v) ==
    IF BitSetContains(bs, v) THEN bs
    ELSE [bits |-> bs.bits \cup {v},
          bit_count |-> IF v >= bs.bit_count THEN v + 1 ELSE bs.bit_count]

BitSetLen(bs) == Cardinality(bs.bits)

RECURSIVE InsertAll(_, _)
InsertAll(bs, vs) ==
    IF vs = <<>> THEN bs ELSE InsertAll(BitSetInsert(bs, Head(vs)), Tail(vs))

RECURSIVE BitByte(_, _, _)
BitByte(bs, base, j) ==
    IF j > 7 THEN 0
    ELSE (IF BitSetContains(bs, base + j) THEN Pow2(7 - j) ELSE 0) + BitByte(bs, base, j + 1)

\* bitset.rs write_bit_set: bits 0..bit_count, most significant bit first
write_bit_set(bs) ==
    [k \in 1..((bs.bit_count + 7) \div 8) |-> BitByte(bs, 8 * (k - 1), 0)]

(***************************************************************************)
(* Content methods.  COPY is the identity; AES-256/SHA-256 is a delegated  *)
(* codec, abstracted to a keyed, size-preserving byte substitution that    *)
(* only the key it was encrypted with inverts.                             *)
(***************************************************************************)
WriterKey == 1

\* the block of the AES-256 cipher, in bytes
AES_BLOCK == 16

\* encoder_options.rs AesEncoderOptions::write_properties (salt and iv zero)
AesProperties == <<8 + 192, 255>> \o [k \in 1..32 |-> 0]

MethodCopy == [id |-> ID_COPY, props |-> <<>>]

MethodAes == [id |-> ID_AES256SHA256, props |-> AesProperties]

\* encoder.rs add_encoder, as the byte transformation of one method
EncodeWith(m, s) ==
    IF m.id = ID_AES256SHA256 THEN [k \in 1..Len(s) |-> (s[k] + WriterKey) % 256] ELSE s

\* writer.rs create_writer: the last method receives the data, the first one
\* writes to the output; Stage(methods, s, k) is what method k emits
RECURSIVE Stage(_, _, _)
Stage(methods, s, k) ==
    IF k > Len(methods) THEN s ELSE EncodeWith(methods[k], Stage(methods, s, k + 1))

\* the sizes vector handed to UnpackInfo::add: more_sizes, then the data size
CoderSizes(methods, s) ==
    [k \in 1..Len(methods) |-> Len(Stage(methods, s, k + 1))]

(***************************************************************************)
(* writer/unpack_info.rs                                                   *)
(***************************************************************************)
\* UnpackInfo::add
UnpackInfo_add(methods, sizes, crc) ==
    [methods |-> methods, sizes |-> sizes, crc |-> crc, num_sub_unpack_streams |-> 1,
     sub_stream_sizes |-> <<>>, sub_stream_crcs |-> <<>>]

\* UnpackInfo::add_multiple
UnpackInfo_add_multiple(methods, sizes, crc, n, sub_sizes, sub_crcs) ==
    [methods |-> methods, sizes |-> sizes, crc |-> crc, num_sub_unpack_streams |-> n,
     sub_stream_sizes |-> sub_sizes, sub_stream_crcs |-> sub_crcs]

\* BlockInfo::write_single_codec
write_single_codec(mc) ==
    LET codec_flags == Len(mc.id) + (IF mc.props # <<>> THEN 32 ELSE 0)
    IN <<codec_flags>> \o mc.id \o
       (IF mc.props # <<>> THEN <<Len(mc.props)>> \o mc.props ELSE <<>>)

\* BlockInfo::write_to
BlockInfo_write_to(b) ==
    LET num_coders == Len(b.methods)
    IN WriteU64(num_coders)
       \o Flatten([k \in 1..num_coders |-> write_single_codec(b.methods[k])])
       \o Flatten([i \in 1..(num_coders - 1) |-> WriteU64(i) \o WriteU64(i - 1)])

\* UnpackInfo::write_to
UnpackInfo_write_to(blocks) ==
    <<K_UNPACK_INFO, K_FOLDER>> \o WriteU64(Len(blocks)) \o <<0>>
    \o Flatten([k \in 1..Len(blocks) |-> BlockInfo_write_to(blocks[k])])
    \o <<K_CODERS_UNPACK_SIZE>>
    \o Flatten([k \in 1..Len(blocks) |->
                  Flatten([j \in 1..Len(blocks[k].sizes) |-> WriteU64(blocks[k].sizes[j])])])
    \o <<K_CRC, 1>>
    \o Flatten([k \in 1..Len(blocks) |-> WriteU32(blocks[k].crc)])
    \o <<K_END>>

\* UnpackInfo::write_substreams, the body of its last loop: the CRCs written
\* for the block f
write_substream_crcs(f) ==
    IF Len(f.sub_stream_crcs) <= 1 /\ f.crc # 0 THEN <<>>
    ELSE Flatten([i \in 1..Len(f.sub_stream_crcs) |-> WriteU32(f.sub_stream_crcs[i])])

\* UnpackInfo::write_substreams
write_substreams(blocks) ==
    <<K_SUB_STREAMS_INFO, K_NUM_UNPACK_STREAM>>
    \o Flatten([k \in 1..Len(blocks) |-> WriteU64(blocks[k].num_sub_unpack_streams)])
    \o <<K_SIZE>>
    \o Flatten([k \in 1..Len(blocks) |->
                  IF Len(blocks[k].sub_stream_sizes) <= 1 THEN <<>>
                  ELSE Flatten([i \in 1..(Len(blocks[k].sub_stream_sizes) - 1) |->
                                  WriteU64(blocks[k].sub_stream_sizes[i])])])
    \o <<K_CRC, 1>>
    \o Flatten([k \in 1..Len(blocks) |-> write_substream_crcs(blocks[k])])
    \o <<K_END>>

\* PackInfo::write_to (writer/pack_info.rs)
PackInfo_write_to(pos, packs) ==
    <<K_PACK_INFO>> \o WriteU64(pos) \o WriteU64(Len(packs)) \o <<K_SIZE>>
    \o Flatten([k \in 1..Len(packs) |-> WriteU64(packs[k].size)])
    \o <<K_CRC, 1>>
    \o Flatten([k \in 1..Len(packs) |-> WriteU32(packs[k].crc)])
    \o <<K_END>>

(***************************************************************************)
(* writer.rs: the header writer.  fs is self.files.                        *)
(***************************************************************************)
\* the indices (from 0) of the entries without a stream, in file order
EmptyIdx(fs) == SelectSeq([k \in 1..Len(fs) |-> k], LAMBDA k : ~fs[k].has_stream)

write_streams_info(packs, blocks) ==
    (IF Len(packs) > 0 THEN PackInfo_write_to(0, packs) \o UnpackInfo_write_to(blocks) ELSE <<>>)
    \o write_substreams(blocks) \o <<K_END>>

write_file_empty_streams(fs) ==
    LET bitset == [bits |-> {i \in 0..(Len(fs) - 1) : ~fs[i + 1].has_stream},
                   bit_count |-> Len(fs)]
        temp == write_bit_set(bitset)
    IN IF \E i \in 1..Len(fs) : ~fs[i].has_stream
       THEN <<K_EMPTY_STREAM>> \o WriteU64(Len(temp)) \o temp
       ELSE <<>>

write_file_empty_files(fs) ==
    LET e == EmptyIdx(fs)
        sel == SelectSeq([c \in 1..Len(e) |-> c - 1], LAMBDA c : ~fs[e[c + 1]].is_directory)
        bitset == InsertAll(BitSetNew, sel)
        temp == write_bit_set(bitset)
    IN IF \E c \in 1..Len(e) : ~fs[e[c]].is_directory
       THEN <<K_EMPTY_FILE>> \o WriteU64(Len(temp)) \o temp
       ELSE <<>>

write_file_anti_items(fs) ==
    LET e == EmptyIdx(fs)
        sel == SelectSeq([c \in 1..Len(e) |-> c - 1], LAMBDA c : ~fs[e[c + 1]].is_anti_item)
        bitset == InsertAll(BitSetNew, sel)
        temp == write_bit_set(bitset)
    IN IF \E c \in 1..Len(e) : ~fs[e[c]].is_anti_item
       THEN <<K_ANTI>> \o WriteU64(Len(temp)) \o temp
       ELSE <<>>

\* a name is a sequence of UTF-16 code units below 256
NameBytes(name) == Flatten([k \in 1..Len(name) |-> <<name[k], 0>>]) \o <<0, 0>>

write_file_names(fs) ==
    LET temp == <<0>> \o Flatten([k \in 1..Len(fs) |-> NameBytes(fs[k].name)])
    IN <<K_NAME>> \o WriteU64(Len(temp)) \o temp

write_files_info(fs) ==
    <<K_FILES_INFO>> \o WriteU64(Len(fs))
    \o write_file_empty_streams(fs)
    \o write_file_empty_files(fs)
    \o write_file_anti_items(fs)
    \o write_file_names(fs)
    \o <<K_END>>

write_header(fs, packs, blocks) ==
    <<K_HEADER, K_MAIN_STREAMS_INFO>> \o write_streams_info(packs, blocks)
    \o write_files_info(fs) \o <<K_END>>

(***************************************************************************)
(* reader.rs: reading primitives.  h is the header buffer, pos the index   *)
(* of the next byte (from 1).  Every reader returns a record whose st is   *)
(* "ok" (with the value v and the new pos), "err" (an Err is returned) or  *)
(* "panic" (the thread panics).                                            *)
(***************************************************************************)
Ok(v, pos) == [st |-> "ok", v |-> v, pos |-> pos, e |-> ""]

Err(e) == [st |-> "err", v |-> 0, pos |-> 0, e |-> e]

Panic(e) == [st |-> "panic", v |-> 0, pos |-> 0, e |-> e]

\* `r?` and what follows it: a failure of r is returned as it is, F runs on its success
Try(r, F(_)) == IF r.st # "ok" THEN r ELSE F(r)

read_u8(h, pos) == IF pos > Len(h) THEN Err("Io") ELSE Ok(h[pos], pos + 1)

\* a number of 2^24 or more: what the code does with it (the size of an
\* allocation, the length of a seek) is outside the model, and so is the
\* opening of a file that holds one
Huge == [st |-> "huge", v |-> 0, pos |-> 0, e |-> "huge"]

RECURSIVE read_u64_loop(_, _, _, _, _, _)
read_u64_loop(h, pos, first, mask, value, i) ==
    IF i >= 8 THEN Ok(value, pos)
    ELSE IF (first \div mask) % 2 = 0
         THEN IF i >= 3 /\ first % mask > 0 THEN Huge
              ELSE Ok(value + (first % mask) * Pow2(8 * i), pos)
         ELSE LET b == read_u8(h, pos)
              IN IF b.st # "ok" THEN b
                 ELSE IF i >= 3 /\ b.v > 0 THEN Huge
                 ELSE read_u64_loop(h, b.pos, first, mask \div 2, value + b.v * Pow2(8 * i), i + 1)

read_u64(h, pos) ==
    LET first == read_u8(h, pos)
    IN IF first.st # "ok" THEN first
       ELSE read_u64_loop(h, first.pos, first.v, 128, 0, 0)

\* a value of 2^31 or more is kept as 2^31 - 1: what is read this way is a
\* CRC, only ever compared with a checksum below CrcModulus
read_u32(h, pos) ==
    IF pos + 3 > Len(h) THEN Err("Io")
    ELSE IF h[pos + 3] >= 128 THEN Ok(2147483647, pos + 4)
    ELSE Ok(h[pos] + 256 * h[pos + 1] + 65536 * h[pos + 2] + 16777216 * h[pos + 3], pos + 4)

\* n values read by f, one after the other
RECURSIVE read_many(_, _, _, _, _)
read_many(f(_, _), h, pos, n, acc) ==
    IF n = 0 THEN Ok(acc, pos)
    ELSE LET r == f(h, pos)
         IN IF r.st # "ok" THEN r ELSE read_many(f, h, r.pos, n - 1, Append(acc, r.v))

read_bits(h, pos, size) ==
    LET nbytes == (size + 7) \div 8
    IN IF pos + nbytes - 1 > Len(h) THEN Err("Io")
       ELSE Ok([bits |-> {i \in 0..(size - 1) :
                             (h[pos + (i \div 8)] \div Pow2(7 - (i % 8))) % 2 = 1},
                bit_count |-> size],
               pos + nbytes)

read_all_or_bits(h, pos, size) ==
    LET all == read_u8(h, pos)
    IN IF all.st # "ok" THEN all
       ELSE IF all.v # 0 THEN Ok([bits |-> 0..(size - 1), bit_count |-> size], all.pos)
       ELSE read_bits(h, all.pos, size)

\* u32 values for the indices 0..n-1 that `defined` contains, 0 for the others
RECURSIVE read_defined_u32(_, _, _, _, _, _)
read_defined_u32(h, pos, defined, i, n, acc) ==
    IF i >= n THEN Ok(acc, pos)
    ELSE IF BitSetContains(defined, i)
         THEN LET r == read_u32(h, pos)
              IN IF r.st # "ok" THEN r
                 ELSE read_defined_u32(h, r.pos, defined, i + 1, n, Append(acc, r.v))
         ELSE read_defined_u32(h, pos, defined, i + 1, n, Append(acc, 0))

(***************************************************************************)
(* block.rs                                                                *)
(***************************************************************************)
\* Block::find_bind_pair_for_in_stream: index of the first pair, 0 for None
find_bind_pair_for_in_stream(block, index) ==
    LET hits == {k \in 1..Len(block.bind_pairs) : block.bind_pairs[k].in_index = index}
    IN IF hits = {} THEN 0 ELSE CHOOSE k \in hits : \A j \in hits : k <= j

\* Block::find_bind_pair_for_out_stream: index of the first pair, 0 for None
find_bind_pair_for_out_stream(block, index) ==
    LET hits == {k \in 1..Len(block.bind_pairs) : block.bind_pairs[k].out_index = index}
    IN IF hits = {} THEN 0 ELSE CHOOSE k \in hits : \A j \in hits : k <= j

\* Block::get_unpack_size
get_unpack_size(block) ==
    LET free == {i \in 0..(block.total_output_streams - 1) :
                    find_bind_pair_for_out_stream(block, i) = 0}
    IN IF block.total_output_streams = 0 \/ free = {} THEN 0
       ELSE block.unpack_sizes[(CHOOSE i \in free : \A j \in free : j <= i) + 1]

\* Block::get_unpack_size_at_index
get_unpack_size_at_index(block, index) ==
    IF index < Len(block.unpack_sizes) THEN block.unpack_sizes[index + 1] ELSE 0

(***************************************************************************)
(* reader.rs: Archive::read_block                                          *)
(***************************************************************************)
\* one coder record of read_block
read_coder(h, pos) ==
    LET bits == read_u8(h, pos)
        id_size == bits.v % 16
        is_simple == (bits.v \div 16) % 2 = 0
        has_attributes == (bits.v \div 32) % 2 = 1
        more_alternative_methods == (bits.v \div 128) % 2 = 1
        \* header.read(id): a short read leaves the rest of the id zero
        got == Min(id_size, Len(h) - bits.pos + 1)
        id == [k \in 1..id_size |-> IF k <= got THEN h[bits.pos + k - 1] ELSE 0]
        p1 == bits.pos + got
        nin == IF is_simple THEN Ok(1, p1) ELSE read_u64(h, p1)
        nout == IF is_simple THEN Ok(1, p1) ELSE read_u64(h, nin.pos)
        psize == IF has_attributes THEN read_u64(h, nout.pos) ELSE Ok(0, nout.pos)
        pgot == Min(psize.v, Len(h) - psize.pos + 1)
        props == [k \in 1..psize.v |-> IF k <= pgot THEN h[psize.pos + k - 1] ELSE 0]
    IN IF bits.st # "ok" THEN bits
       ELSE IF nin.st # "ok" THEN nin
       ELSE IF nout.st # "ok" THEN nout
       ELSE IF psize.st # "ok" THEN psize
       ELSE IF more_alternative_methods THEN Err("Other")
       ELSE Ok([id |-> id, num_in_streams |-> nin.v, num_out_streams |-> nout.v,
                properties |-> props], psize.pos + pgot)

read_bind_pair(h, pos) ==
    LET i == read_u64(h, pos)
        o == read_u64(h, i.pos)
    IN IF i.st # "ok" THEN i
       ELSE IF o.st # "ok" THEN o
       ELSE Ok([in_index |-> i.v, out_index |-> o.v], o.pos)

read_block(h, pos) ==
    Try(read_u64(h, pos), LAMBDA num_coders :
    Try(read_many(read_coder, h, num_coders.pos, num_coders.v, <<>>), LAMBDA coders :
    LET total_in_streams == SeqSum([k \in 1..Len(coders.v) |-> coders.v[k].num_in_streams])
        total_out_streams == SeqSum([k \in 1..Len(coders.v) |-> coders.v[k].num_out_streams])
        num_bind_pairs == total_out_streams - 1
    IN IF total_out_streams = 0 THEN Err("Other") ELSE
    Try(read_many(read_bind_pair, h, coders.pos, num_bind_pairs, <<>>), LAMBDA bind_pairs :
    LET num_packed_streams == total_in_streams - num_bind_pairs
        b0 == [coders |-> coders.v, has_crc |-> FALSE, crc |-> 0,
               total_input_streams |-> total_in_streams,
               total_output_streams |-> total_out_streams,
               bind_pairs |-> bind_pairs.v, packed_streams |-> <<>>,
               unpack_sizes |-> <<>>, num_unpack_sub_streams |-> 0]
        unbound == {i \in 0..(total_in_streams - 1) : find_bind_pair_for_in_stream(b0, i) = 0}
    IN IF total_in_streams < num_bind_pairs THEN Err("Other") ELSE
    Try(IF num_packed_streams = 1
        THEN (IF unbound = {} THEN Err("Other")
              ELSE Ok(<<CHOOSE i \in unbound : \A j \in unbound : i <= j>>, bind_pairs.pos))
        ELSE read_many(read_u64, h, bind_pairs.pos, num_packed_streams, <<>>),
        LAMBDA packed : Ok([b0 EXCEPT !.packed_streams = packed.v], packed.pos)))))

(***************************************************************************)
(* reader.rs: the sections of the streams info.  a is the Archive under    *)
(* construction; the value of a successful read is the updated Archive.    *)
(***************************************************************************)
NoSubStreamsInfo == [some |-> FALSE, unpack_sizes |-> <<>>, has_crc |-> BitSetNew, crcs |-> <<>>]

EmptyStreamMap ==
    [block_first_pack_stream_index |-> <<>>, pack_stream_offsets |-> <<>>,
     block_first_file_index |-> <<>>, file_block_index |-> <<>>]

\* Archive::default()
ArchiveDefault ==
    [pack_pos |-> 0, pack_sizes |-> <<>>, sub_streams_info |-> NoSubStreamsInfo,
     blocks |-> <<>>, files |-> <<>>, stream_map |-> EmptyStreamMap, is_solid |-> FALSE]

\* the trailing `if nid != K_END` of a section
ExpectEnd(nid, a, e) ==
    IF nid.st # "ok" THEN nid ELSE IF nid.v # K_END THEN Err(e) ELSE Ok(a, nid.pos)

read_pack_info(h, pos, a) ==
    Try(read_u64(h, pos), LAMBDA pack_pos :
    Try(read_u64(h, pack_pos.pos), LAMBDA num_pack_streams :
    Try(read_u8(h, num_pack_streams.pos), LAMBDA nid1 :
    Try(IF nid1.v = K_SIZE THEN read_many(read_u64, h, nid1.pos, num_pack_streams.v, <<>>)
        ELSE Ok(a.pack_sizes, nid1.pos), LAMBDA sizes :
    Try(IF nid1.v = K_SIZE THEN read_u8(h, sizes.pos) ELSE nid1, LAMBDA nid2 :
    Try(IF nid2.v = K_CRC THEN read_all_or_bits(h, nid2.pos, num_pack_streams.v)
        ELSE Ok(BitSetNew, nid2.pos), LAMBDA defined :
    Try(IF nid2.v = K_CRC
        THEN read_defined_u32(h, defined.pos, defined.v, 0, num_pack_streams.v, <<>>)
        ELSE Ok(<<>>, nid2.pos), LAMBDA crcs :
    ExpectEnd(IF nid2.v = K_CRC THEN read_u8(h, crcs.pos) ELSE nid2,
              [a EXCEPT !.pack_pos = pack_pos.v, !.pack_sizes = sizes.v],
              "BadTerminatedPackInfo"))))))))

\* the kCodersUnpackSize loop: total_output_streams sizes for every block
RECURSIVE read_unpack_sizes(_, _, _, _)
read_unpack_sizes(h, pos, blocks, k) ==
    IF k > Len(blocks) THEN Ok(blocks, pos)
    ELSE Try(read_many(read_u64, h, pos, blocks[k].total_output_streams, <<>>), LAMBDA r :
         read_unpack_sizes(h, r.pos, [blocks EXCEPT ![k].unpack_sizes = r.v], k + 1))

\* the kCRC part of read_unpack_info: has_crc and crc of the first num_blocks blocks
block_crcs(blocks, num_blocks, defined, crcs) ==
    [k \in 1..Len(blocks) |->
       IF k <= num_blocks
       THEN [blocks[k] EXCEPT !.has_crc = BitSetContains(defined, k - 1),
                              !.crc = IF BitSetContains(defined, k - 1) THEN crcs[k] ELSE @]
       ELSE blocks[k]]

read_unpack_info(h, pos, a) ==
    Try(read_u8(h, pos), LAMBDA nid0 :
    IF nid0.v # K_FOLDER THEN Err("Other") ELSE
    Try(read_u64(h, nid0.pos), LAMBDA num_blocks :
    Try(read_u8(h, num_blocks.pos), LAMBDA external :
    IF external.v # 0 THEN Err("ExternalUnsupported") ELSE
    Try(read_many(read_block, h, external.pos, num_blocks.v, a.blocks), LAMBDA blocks :
    Try(read_u8(h, blocks.pos), LAMBDA nid1 :
    IF nid1.v # K_CODERS_UNPACK_SIZE THEN Err("Other") ELSE
    Try(read_unpack_sizes(h, nid1.pos, blocks.v, 1), LAMBDA sized :
    Try(read_u8(h, sized.pos), LAMBDA nid2 :
    Try(IF nid2.v = K_CRC THEN read_all_or_bits(h, nid2.pos, num_blocks.v)
        ELSE Ok(BitSetNew, nid2.pos), LAMBDA defined :
    Try(IF nid2.v = K_CRC
        THEN read_defined_u32(h, defined.pos, defined.v, 0, num_blocks.v, <<>>)
        ELSE Ok(<<>>, nid2.pos), LAMBDA crcs :
    ExpectEnd(IF nid2.v = K_CRC THEN read_u8(h, crcs.pos) ELSE nid2,
              [a EXCEPT !.blocks = IF nid2.v = K_CRC
                                   THEN block_crcs(sized.v, num_blocks.v, defined.v, crcs.v)
                                   ELSE sized.v],
              "BadTerminatedUnpackInfo"))))))))))

\* the kSize loop of read_sub_streams_info: the unpack sizes of the sub-streams
RECURSIVE read_sub_sizes(_, _, _, _, _, _)
read_sub_sizes(h, pos, blocks, k, has_size, acc) ==
    IF k > Len(blocks) THEN Ok(acc, pos)
    ELSE IF blocks[k].num_unpack_sub_streams = 0
         THEN read_sub_sizes(h, pos, blocks, k + 1, has_size, acc)
    ELSE Try(IF has_size
             THEN read_many(read_u64, h, pos, blocks[k].num_unpack_sub_streams - 1, <<>>)
             ELSE Ok(<<>>, pos), LAMBDA r :
         IF SeqSum(r.v) > get_unpack_size(blocks[k]) THEN Err("Other")
         ELSE read_sub_sizes(h, r.pos, blocks, k + 1, has_size,
                             acc \o r.v \o <<get_unpack_size(blocks[k]) - SeqSum(r.v)>>))

\* the digests of read_sub_streams_info, block by block: [has, crc] per sub-stream
RECURSIVE merge_crcs(_, _, _, _, _)
merge_crcs(blocks, k, has_missing_crc, missing_crcs, next_missing_crc) ==
    IF k > Len(blocks) THEN <<>>
    ELSE IF blocks[k].num_unpack_sub_streams = 1 /\ blocks[k].has_crc
         THEN <<[has |-> TRUE, crc |-> blocks[k].crc]>>
              \o merge_crcs(blocks, k + 1, has_missing_crc, missing_crcs, next_missing_crc)
         ELSE [i \in 1..blocks[k].num_unpack_sub_streams |->
                 [has |-> BitSetContains(has_missing_crc, next_missing_crc + i - 1),
                  crc |-> missing_crcs[next_missing_crc + i]]]
              \o merge_crcs(blocks, k + 1, has_missing_crc, missing_crcs,
                            next_missing_crc + blocks[k].num_unpack_sub_streams)

\* the SubStreamsInfo that read_sub_streams_info builds from what it has read
new_sub_streams_info(total_unpack_streams, sizes, has_crcs, merged) ==
    [some |-> TRUE,
     unpack_sizes |-> [i \in 1..total_unpack_streams |->
                         IF i <= Len(sizes) THEN sizes[i] ELSE 0],
     has_crc |-> IF has_crcs
                 THEN [bits |-> {i \in 0..(Len(merged) - 1) : merged[i + 1].has},
                       bit_count |-> total_unpack_streams]
                 ELSE [bits |-> {}, bit_count |-> total_unpack_streams],
     crcs |-> IF has_crcs
              THEN [i \in 1..Len(merged) |-> merged[i].crc]
              ELSE [i \in 1..total_unpack_streams |-> 0]]

\* the number of digests the kCRC part expects for the blocks
num_digests(blocks) ==
    SeqSum([k \in 1..Len(blocks) |->
              IF blocks[k].num_unpack_sub_streams # 1 \/ ~blocks[k].has_crc
              THEN blocks[k].num_unpack_sub_streams ELSE 0])

\* read_sub_streams_info from the kSize part on; blocks carry num_unpack_sub_streams
read_sub_streams_rest(h, nid1, a, blocks, total_unpack_streams) ==
    Try(read_sub_sizes(h, nid1.pos, blocks, 1, nid1.v = K_SIZE, <<>>), LAMBDA sizes :
    Try(IF nid1.v = K_SIZE THEN read_u8(h, sizes.pos) ELSE nid1, LAMBDA nid2 :
    Try(IF nid2.v = K_CRC THEN read_all_or_bits(h, nid2.pos, num_digests(blocks))
        ELSE Ok(BitSetNew, nid2.pos), LAMBDA has_missing_crc :
    Try(IF nid2.v = K_CRC
        THEN read_defined_u32(h, has_missing_crc.pos, has_missing_crc.v,
                              0, num_digests(blocks), <<>>)
        ELSE Ok(<<>>, nid2.pos), LAMBDA missing_crcs :
    ExpectEnd(IF nid2.v = K_CRC THEN read_u8(h, missing_crcs.pos) ELSE nid2,
              [a EXCEPT !.blocks = blocks,
                        !.sub_streams_info =
                            new_sub_streams_info(total_unpack_streams, sizes.v, nid2.v = K_CRC,
                                merge_crcs(blocks, 1, has_missing_crc.v, missing_crcs.v, 0))],
              "BadTerminatedSubStreamsInfo")))))

read_sub_streams_info(h, pos, a) ==
    Try(read_u8(h, pos), LAMBDA nid0 :
    Try(IF nid0.v = K_NUM_UNPACK_STREAM
        THEN read_many(read_u64, h, nid0.pos, Len(a.blocks), <<>>)
        ELSE Ok([k \in 1..Len(a.blocks) |-> 1], nid0.pos), LAMBDA nums :
    Try(IF nid0.v = K_NUM_UNPACK_STREAM THEN read_u8(h, nums.pos) ELSE nid0, LAMBDA nid1 :
    read_sub_streams_rest(h, nid1, a,
        [k \in 1..Len(a.blocks) |-> [a.blocks[k] EXCEPT !.num_unpack_sub_streams = nums.v[k]]],
        SeqSum(nums.v)))))

read_streams_info(h, pos, a) ==
    Try(read_u8(h, pos), LAMBDA nid0 :
    Try(IF nid0.v = K_PACK_INFO THEN read_pack_info(h, nid0.pos, a) ELSE Ok(a, nid0.pos),
        LAMBDA pack :
    Try(IF nid0.v = K_PACK_INFO THEN read_u8(h, pack.pos) ELSE nid0, LAMBDA nid1 :
    Try(IF nid1.v = K_UNPACK_INFO THEN read_unpack_info(h, nid1.pos, pack.v)
        ELSE Ok([pack.v EXCEPT !.blocks = <<>>], nid1.pos), LAMBDA unpack :
    Try(IF nid1.v = K_UNPACK_INFO THEN read_u8(h, unpack.pos) ELSE nid1, LAMBDA nid2 :
    Try(IF nid2.v = K_SUB_STREAMS_INFO THEN read_sub_streams_info(h, nid2.pos, unpack.v)
        ELSE Ok(unpack.v, nid2.pos), LAMBDA sub :
    ExpectEnd(IF nid2.v = K_SUB_STREAMS_INFO THEN read_u8(h, sub.pos) ELSE nid2, sub.v,
              "BadTerminatedStreamsInfo")))))))

(***************************************************************************)
(* reader.rs: Archive::read_files_info                                     *)
(***************************************************************************)
NoBits == [some |-> FALSE, bs |-> BitSetNew]

SomeBits(bs) == [some |-> TRUE, bs |-> bs]

\* NamesReader: the names found in max_bytes bytes, as sequences of code units
\* `files[next_file].name = s?` panics once there are more names than files
RECURSIVE read_names(_, _, _, _, _, _, _)
read_names(h, pos, max_bytes, read_bytes, cache, names, num_files) ==
    IF Len(names) > num_files THEN Panic("index")
    ELSE IF read_bytes >= max_bytes
    THEN (IF ~cache.open THEN Ok(names, pos)
          ELSE IF Len(names) >= num_files THEN Panic("index")
          ELSE Ok(Append(names, cache.s), pos))
    ELSE IF pos + 1 > Len(h) THEN Err("Io")
    ELSE LET u == h[pos] + 256 * h[pos + 1]
         IN IF u = 0
            THEN read_names(h, pos + 2, max_bytes, read_bytes + 2,
                            [open |-> FALSE, s |-> <<>>], Append(names, cache.s), num_files)
            ELSE read_names(h, pos + 2, max_bytes, read_bytes + 2,
                            [open |-> TRUE, s |-> Append(cache.s, u)], names, num_files)

\* a kCTime/kATime/kMTime/kWinAttributes record; the values are not kept
read_times(h, pos, num_files, width) ==
    LET times_defined == read_all_or_bits(h, pos, num_files)
        external == read_u8(h, times_defined.pos)
        n == Cardinality({i \in 0..(num_files - 1) : BitSetContains(times_defined.v, i)})
    IN IF times_defined.st # "ok" THEN times_defined
       ELSE IF external.st # "ok" THEN external
       ELSE IF external.v # 0 THEN Err("Other")
       ELSE IF external.pos + n * width - 1 > Len(h) THEN Err("Io")
       ELSE Ok(0, external.pos + n * width)

\* the property loop of read_files_info; ps holds is_empty_stream,
\* is_empty_file, is_anti and the names assigned so far
RECURSIVE read_file_props(_, _, _, _)
read_file_props(h, pos, num_files, ps) ==
    LET prop_type == read_u8(h, pos)
        size == read_u64(h, prop_type.pos)
        t == prop_type.v
        p == size.pos
    IN IF prop_type.st # "ok" THEN prop_type
       ELSE IF t = 0 THEN Ok(ps, prop_type.pos)
       ELSE IF size.st # "ok" THEN size
       ELSE IF t = K_EMPTY_STREAM
       THEN LET r == read_bits(h, p, num_files)
            IN IF r.st # "ok" THEN r
               ELSE read_file_props(h, r.pos, num_files, [ps EXCEPT !.es = SomeBits(r.v)])
       ELSE IF t = K_EMPTY_FILE
       THEN IF ~ps.es.some THEN Err("Other")
            ELSE LET r == read_bits(h, p, BitSetLen(ps.es.bs))
                 IN IF r.st # "ok" THEN r
                    ELSE read_file_props(h, r.pos, num_files, [ps EXCEPT !.ef = SomeBits(r.v)])
       ELSE IF t = K_ANTI
       THEN IF ~ps.es.some THEN Err("Other")
            ELSE LET r == read_bits(h, p, BitSetLen(ps.es.bs))
                 IN IF r.st # "ok" THEN r
                    ELSE read_file_props(h, r.pos, num_files, [ps EXCEPT !.anti = SomeBits(r.v)])
       ELSE IF t = K_NAME
       THEN LET external == read_u8(h, p)
                r == read_names(h, external.pos, size.v - 1, 0, [open |-> FALSE, s |-> <<>>],
                                <<>>, num_files)
            IN IF external.st # "ok" THEN external
               ELSE IF external.v # 0 THEN Err("Other")
               \* size - 1 on a u64: with overflow checks 0 - 1 panics, without
               \* them it wraps to an odd number
               ELSE IF size.v = 0 THEN (IF overflow_checks THEN Panic("overflow") ELSE Err("Other"))
               ELSE IF (size.v - 1) % 2 # 0 THEN Err("Other")
               ELSE IF r.st # "ok" THEN r
               ELSE IF Len(r.v) # num_files THEN Err("Other")
               ELSE read_file_props(h, r.pos, num_files, [ps EXCEPT !.names = r.v])
       ELSE IF t \in {18, 19, 20, 21}
       THEN LET r == read_times(h, p, num_files, IF t = 21 THEN 4 ELSE 8)
            IN IF r.st # "ok" THEN r ELSE read_file_props(h, r.pos, num_files, ps)
       ELSE IF t = K_START_POS THEN Err("Other")
       ELSE read_file_props(h, p + size.v, num_files, ps)

\* Archive::calculate_stream_map, the loop over the files: st holds the map
\* under construction, next_block_index and next_block_unpack_stream_index
RECURSIVE stream_map_loop(_, _, _)
stream_map_loop(a, i, st) ==
    IF i >= Len(a.files) THEN Ok(st, 0)
    ELSE IF ~a.files[i + 1].has_stream /\ st.nbusi = 0
         THEN stream_map_loop(a, i + 1, st)
    ELSE LET \* while next_block_index < blocks.len(): the blocks skipped are
             \* those without sub-streams; all of them get first file index i
             cand == {b \in st.nbi..(Len(a.blocks) - 1) :
                        a.blocks[b + 1].num_unpack_sub_streams > 0}
             nbi == IF st.nbusi # 0 THEN st.nbi
                    ELSE IF cand = {} THEN Len(a.blocks)
                    ELSE CHOOSE b \in cand : \A c \in cand : b <= c
             bffi == IF st.nbusi # 0 THEN st.bffi
                     ELSE [b \in 1..Len(a.blocks) |->
                             IF b - 1 >= st.nbi /\ b - 1 <= nbi THEN i ELSE st.bffi[b]]
             fbi == [st.fbi EXCEPT ![i + 1] = [some |-> TRUE, v |-> nbi]]
             first == bffi[nbi + 1] = i
             fpsi == st.bfpsi[nbi + 1]
             files == IF first
                      THEN [st.files EXCEPT ![i + 1].compressed_size = a.pack_sizes[fpsi + 1]]
                      ELSE st.files
             wrap == st.nbusi + 1 >= a.blocks[nbi + 1].num_unpack_sub_streams
         IN IF nbi >= Len(a.blocks) THEN Err("Other")
            ELSE IF ~a.files[i + 1].has_stream
                 THEN stream_map_loop(a, i + 1, [st EXCEPT !.bffi = bffi, !.fbi = fbi, !.nbi = nbi])
            ELSE IF first /\ fpsi >= Len(a.pack_sizes) THEN Panic("index")
            ELSE stream_map_loop(a, i + 1,
                     [st EXCEPT !.bffi = bffi, !.fbi = fbi, !.files = files,
                                !.nbi = IF wrap THEN nbi + 1 ELSE nbi,
                                !.nbusi = IF wrap THEN 0 ELSE st.nbusi + 1])

\* calculate_stream_map that leaves block_first_file_index as allocated,
\* all zero
calculate_stream_map_first_zero(a) ==
    LET num_blocks == Len(a.blocks)
        bfpsi == [b \in 1..num_blocks |->
                    SeqSum([c \in 1..(b - 1) |-> Len(a.blocks[c].packed_streams)])]
        pso == [k \in 1..Len(a.pack_sizes) |-> SeqSum(SubSeq(a.pack_sizes, 1, k - 1))]
        r == stream_map_loop(a, 0,
                 [bfpsi |-> bfpsi, bffi |-> [b \in 1..num_blocks |-> 0],
                  fbi |-> [k \in 1..Len(a.files) |-> [some |-> FALSE, v |-> 0]],
                  files |-> a.files, nbi |-> 0, nbusi |-> 0])
    IN IF r.st # "ok" THEN r
       ELSE Ok([a EXCEPT !.files = r.v.files,
                         !.stream_map = [block_first_pack_stream_index |-> bfpsi,
                                         pack_stream_offsets |-> pso,
                                         block_first_file_index |-> [b \in 1..num_blocks |-> 0],
                                         file_block_index |-> r.v.fbi]], 0)

\* Archive::calculate_stream_map
calculate_stream_map(a) ==
    LET num_blocks == Len(a.blocks)
        bfpsi == [b \in 1..num_blocks |->
                    SeqSum([c \in 1..(b - 1) |-> Len(a.blocks[c].packed_streams)])]
        pso == [k \in 1..Len(a.pack_sizes) |-> SeqSum(SubSeq(a.pack_sizes, 1, k - 1))]
        r == stream_map_loop(a, 0,
                 [bfpsi |-> bfpsi, bffi |-> [b \in 1..num_blocks |-> 0],
                  fbi |-> [k \in 1..Len(a.files) |-> [some |-> FALSE, v |-> 0]],
                  files |-> a.files, nbi |-> 0, nbusi |-> 0])
    IN IF r.st # "ok" THEN r
       ELSE Ok([a EXCEPT !.files = r.v.files,
                         !.stream_map = [block_first_pack_stream_index |-> bfpsi,
                                         pack_stream_offsets |-> pso,
                                         block_first_file_index |-> r.v.bffi,
                                         file_block_index |-> r.v.fbi]], 0)

\* has_stream of the file of index i: the complement of is_empty_stream
file_has_stream(ps, i) == IF ps.es.some THEN ~BitSetContains(ps.es.bs, i) ELSE TRUE

\* non_empty_file_counter and empty_file_counter when the loop reaches file i
non_empty_file_counter(ps, i) == Cardinality({j \in 0..(i - 1) : file_has_stream(ps, j)})

empty_file_counter(ps, i) == Cardinality({j \in 0..(i - 1) : ~file_has_stream(ps, j)})

\* the loop over the files that ends read_files_info
read_files_loop(ps, ssi, num_files) ==
    [k \in 1..num_files |->
       IF file_has_stream(ps, k - 1)
       THEN [name |-> ps.names[k], has_stream |-> TRUE,
             is_directory |-> FALSE, is_anti_item |-> FALSE,
             has_crc |-> BitSetContains(ssi.has_crc, non_empty_file_counter(ps, k - 1)),
             crc |-> ssi.crcs[non_empty_file_counter(ps, k - 1) + 1],
             size |-> ssi.unpack_sizes[non_empty_file_counter(ps, k - 1) + 1],
             compressed_size |-> 0]
       ELSE [name |-> ps.names[k], has_stream |-> FALSE,
             is_directory |-> IF ps.ef.some
                              THEN ~BitSetContains(ps.ef.bs, empty_file_counter(ps, k - 1))
                              ELSE TRUE,
             is_anti_item |-> IF ps.anti.some
                              THEN BitSetContains(ps.anti.bs, empty_file_counter(ps, k - 1))
                              ELSE FALSE,
             has_crc |-> FALSE, crc |-> 0, size |-> 0, compressed_size |-> 0]]

read_files_info(h, pos, a) ==
    Try(read_u64(h, pos), LAMBDA num_files :
    Try(read_file_props(h, num_files.pos, num_files.v,
            [es |-> NoBits, ef |-> NoBits, anti |-> NoBits,
             names |-> [k \in 1..num_files.v |-> <<>>]]), LAMBDA props :
    IF non_empty_file_counter(props.v, num_files.v) > 0 /\ ~a.sub_streams_info.some
    THEN Err("Other")
    \* sub_stream_info.crcs[non_empty_file_counter]
    ELSE IF non_empty_file_counter(props.v, num_files.v) > Len(a.sub_streams_info.crcs)
    THEN Panic("index")
    ELSE Try(calculate_stream_map(
                 [a EXCEPT !.files = read_files_loop(props.v, a.sub_streams_info, num_files.v)]),
             LAMBDA m : Ok(m.v, props.pos))))

\* Archive::read_archive_properties: the value is the id read after the section
RECURSIVE read_archive_properties(_, _)
read_archive_properties(h, pos) ==
    LET nid == read_u8(h, pos)
        property_size == read_u64(h, nid.pos)
    IN IF nid.st # "ok" THEN nid
       ELSE IF nid.v = K_END THEN read_u8(h, nid.pos)
       ELSE IF property_size.st # "ok" THEN property_size
       ELSE read_archive_properties(h, property_size.pos + property_size.v)

\* Archive::read_header, entered after the kHeader byte
read_header(h, pos) ==
    Try(read_u8(h, pos), LAMBDA first :
    Try(IF first.v = K_ARCHIVE_PROPERTIES THEN read_archive_properties(h, first.pos) ELSE first,
        LAMBDA nid0 :
    IF nid0.v = K_ADDITIONAL_STREAMS_INFO THEN Err("Other") ELSE
    Try(IF nid0.v = K_MAIN_STREAMS_INFO THEN read_streams_info(h, nid0.pos, ArchiveDefault)
        ELSE Ok(ArchiveDefault, nid0.pos), LAMBDA main :
    Try(IF nid0.v = K_MAIN_STREAMS_INFO THEN read_u8(h, main.pos) ELSE nid0, LAMBDA nid1 :
    Try(IF nid1.v = K_FILES_INFO THEN read_files_info(h, nid1.pos, main.v)
        ELSE Ok(main.v, nid1.pos), LAMBDA fi :
    ExpectEnd(IF nid1.v = K_FILES_INFO THEN read_u8(h, fi.pos) ELSE nid1, fi.v,
              "BadTerminatedHeader"))))))

(***************************************************************************)
(* error.rs.  An Error is its variant (kind), the io::Error it wraps       *)
(* (inner: "os" for a failure of the source, "checksum" for the            *)
(* io::Error::other(ChecksumVerificationFailed) of Crc32VerifyingReader)   *)
(* and whether the context message of an Io is empty.                      *)
(***************************************************************************)
Error(kind) == [kind |-> kind, inner |-> "", msg_empty |-> TRUE]

\* impl From<std::io::Error> for Error, Error::io
Error_io(inner) == [kind |-> "Io", inner |-> inner, msg_empty |-> TRUE]

\* Error::maybe_bad_password
maybe_bad_password(self, encryped) ==
    IF ~encryped THEN self
    ELSE IF self.kind = "Io" /\ self.msg_empty
         THEN [kind |-> "MaybeBadPassword", inner |-> self.inner, msg_empty |-> TRUE]
         ELSE self

(***************************************************************************)
(* A password is 0 (empty) or the key it derives.                          *)
(***************************************************************************)
NoPassword == 0

Passwords == {NoPassword, WriterKey, WriterKey + 1}

(***************************************************************************)
(* decoder.rs: add_decoder.  The result is "ok", or the Error or panic of  *)
(* the construction.  Of the delegated codecs only COPY and AES are given  *)
(* a body; no input of the model carries another complete coder.           *)
(***************************************************************************)
add_decoder(coder, password) ==
    IF coder.id = ID_COPY THEN Ok(0, 0)
    ELSE IF coder.id = ID_LZMA
         \* get_lzma_dic_size: &coder.properties[1..5]
         THEN IF Len(coder.properties) < 5 THEN Panic("slice")
              ELSE Err("UnsupportedCompressionMethod")
    ELSE IF coder.id = ID_AES256SHA256
         THEN IF password = NoPassword THEN Err("PasswordRequired")
              \* get_aes_key
              ELSE IF Len(coder.properties) = 0 THEN Err("Other")
              ELSE LET b0 == coder.properties[1]
                       b1 == IF Len(coder.properties) = 1 THEN 0 ELSE coder.properties[2]
                       len == IF Len(coder.properties) = 1 THEN 2 ELSE Len(coder.properties)
                       iv_size == ((b0 \div 64) % 2) + (b1 % 16)
                       salt_size == ((b0 \div 128) % 2) + (b1 \div 16)
                   IN IF 2 + salt_size + iv_size > len THEN Err("Other")
                      \* aes_key.copy_from_slice(&salt[..salt_size]): 32 # salt_size
                      ELSE IF b0 % 64 = 63 THEN Panic("copy_from_slice")
                      ELSE Ok(0, 0)
    ELSE Err("UnsupportedCompressionMethod")

\* the bytes a decoder yields from the bytes s of its input
DecodeWith(coder, password, s) ==
    IF coder.id = ID_AES256SHA256 THEN [k \in 1..Len(s) |-> (s[k] + 256 - password) % 256]
    ELSE s

(***************************************************************************)
(* block.rs: OrderedCoderIter.  The walk yields the coder indices in       *)
(* processing order; loop is TRUE when `current` comes back to an index    *)
(* already yielded, so that the iterator never ends.                       *)
(***************************************************************************)
RECURSIVE ordered_coder_walk(_, _, _, _)
ordered_coder_walk(block, current, seen, acc) ==
    IF ~current.some THEN [loop |-> FALSE, order |-> acc]
    ELSE IF current.v >= Len(block.coders) THEN [loop |-> FALSE, order |-> acc]
    ELSE IF current.v \in seen THEN [loop |-> TRUE, order |-> acc]
    ELSE LET bp == find_bind_pair_for_out_stream(block, current.v)
             next == IF bp = 0 THEN [some |-> FALSE, v |-> 0]
                     ELSE [some |-> TRUE, v |-> block.bind_pairs[bp].in_index]
         IN ordered_coder_walk(block, next, seen \cup {current.v}, Append(acc, current.v))

ordered_coder_iter(block) ==
    ordered_coder_walk(block,
        IF block.packed_streams = <<>> THEN [some |-> FALSE, v |-> 0]
        ELSE [some |-> TRUE, v |-> block.packed_streams[1]],
        {}, <<>>)

(***************************************************************************)
(* reader.rs: the decode stack of a block.  A block reader is the byte     *)
(* sequence its chain decodes (data), the bytes handed out so far (pos),   *)
(* whether reads of the source fail (fault) and the state of the           *)
(* Crc32VerifyingReader on top, when the block has a CRC.                  *)
(***************************************************************************)
NoReader == [data |-> <<>>, pos |-> 0, fault |-> FALSE, crc_on |-> FALSE, crc |-> 0,
             unpack_size |-> 0]

\* the coders of the walk applied one after the other: the first failing
\* add_decoder ends the construction
RECURSIVE decode_chain(_, _, _, _, _)
decode_chain(block, order, k, password, s) ==
    IF k > Len(order) THEN Ok(s, 0)
    ELSE LET coder == block.coders[order[k] + 1]
             d == add_decoder(coder, password)
         IN IF coder.num_in_streams # 1 \/ coder.num_out_streams # 1 THEN Err("Unsupported")
            ELSE IF d.st # "ok" THEN d
            ELSE decode_chain(block, order, k + 1, password, DecodeWith(coder, password, s))

\* ArchiveReader::build_decode_stack2, up to the check of the main coder
build_decode_stack2(a, block_index) ==
    LET block == a.blocks[block_index + 1]
        sm == a.stream_map
        first_pack_stream_index == sm.block_first_pack_stream_index[block_index + 1]
        used == {block.bind_pairs[k].out_index : k \in 1..Len(block.bind_pairs)}
        free == {i \in 0..(Len(block.coders) - 1) : i \notin used}
        main_coder_index == IF free = {} THEN 0 ELSE SetMin(free)
    IN IF Len(block.coders) > MAX_CODER_COUNT THEN Err("Unsupported")
       ELSE IF block_index >= Len(sm.block_first_pack_stream_index) THEN Panic("index")
       \* &pack_stream_offsets[first..], offsets[..packed_streams.len()]
       ELSE IF first_pack_stream_index > Len(sm.pack_stream_offsets) THEN Panic("slice")
       ELSE IF Len(block.packed_streams) > Len(sm.pack_stream_offsets) - first_pack_stream_index
            THEN Panic("slice")
       \* coder_used[bp.out_index as usize] = true
       ELSE IF \E i \in used : i >= MAX_CODER_COUNT THEN Panic("index")
       ELSE IF block.coders[main_coder_index + 1].id # ID_BCJ2 THEN Err("Unsupported")
       \* the BCJ2 pipeline itself is outside this model
       ELSE Err("Unsupported")

\* ArchiveReader::build_decode_stack; src is the source after the signature header
build_decode_stack(a, block_index, password, src, fault) ==
    LET block == a.blocks[block_index + 1]
        sm == a.stream_map
        first_pack_stream_index == sm.block_first_pack_stream_index[block_index + 1]
        block_offset == a.pack_pos + sm.pack_stream_offsets[first_pack_stream_index + 1]
        pack_size == a.pack_sizes[first_pack_stream_index + 1]
        \* BoundedReader::new(source, pack_size) after the seek to block_offset
        avail == IF block_offset >= Len(src) THEN 0 ELSE Min(pack_size, Len(src) - block_offset)
        packed == SubSeq(src, block_offset + 1, block_offset + avail)
        walk == ordered_coder_iter(block)
        chain == decode_chain(block, walk.order, 1, password, packed)
    IN IF block.total_input_streams > block.total_output_streams
       THEN build_decode_stack2(a, block_index)
       ELSE IF block_index >= Len(sm.block_first_pack_stream_index) THEN Panic("index")
       ELSE IF first_pack_stream_index >= Len(sm.pack_stream_offsets) THEN Panic("index")
       ELSE IF chain.st # "ok" THEN chain
       ELSE IF walk.loop THEN [st |-> "diverge", v |-> 0, pos |-> 0, e |-> "loop"]
       ELSE Ok([data |-> chain.v, pos |-> 0, fault |-> fault /\ pack_size > 0,
                crc_on |-> block.has_crc, crc |-> block.crc,
                unpack_size |-> get_unpack_size(block)], 0)

\* one read of up to n bytes from the block reader (Crc32VerifyingReader over
\* the chain): v is <<bytes, reader afterwards>>, e the io::Error of a failure
block_read(br, n) ==
    LET got == Min(n, Len(br.data) - br.pos)
        bytes == SubSeq(br.data, br.pos + 1, br.pos + got)
        pos2 == br.pos + got
    IN IF br.crc_on /\ br.unpack_size - br.pos <= 0 THEN Ok(<<<<>>, br>>, 0)
       ELSE IF br.fault THEN Err("os")
       ELSE IF br.crc_on /\ br.unpack_size - pos2 <= 0
               /\ Crc32(SubSeq(br.data, 1, pos2)) # br.crc
            THEN [st |-> "err", v |-> <<<<>>, [br EXCEPT !.pos = pos2]>>, pos |-> 0,
                  e |-> "checksum"]
       ELSE Ok(<<bytes, [br EXCEPT !.pos = pos2]>>, 0)

\* read_to_end on BoundedReader(block_reader, file.size), wrapped in a
\* Crc32VerifyingReader when the file has a CRC
entry_read_to_end(br, file) ==
    LET r == block_read(br, file.size)
        bytes == r.v[1]
    IN IF file.size = 0 THEN Ok(<<<<>>, br>>, 0)
       ELSE IF r.st # "ok" THEN r
       ELSE IF file.has_crc /\ file.size - Len(bytes) <= 0 /\ Crc32(bytes) # file.crc
            THEN [st |-> "err", v |-> r.v, pos |-> 0, e |-> "checksum"]
       ELSE r

\* the reads of a callback that asks its reader for n bytes in all: the
\* BoundedReader hands out no more than file.size, and the CRC of the entry
\* is compared once file.size bytes have gone through
entry_read(br, file, n) ==
    IF n >= file.size THEN entry_read_to_end(br, file)
    ELSE IF n = 0 THEN Ok(<<<<>>, br>>, 0)
    ELSE block_read(br, n)

(***************************************************************************)
(* reader.rs: opening an archive.  The 32 bytes of the signature header    *)
(* are kept as a record: whether the signature matches, the major version, *)
(* the start header CRC and the three fields of the 20-byte start header   *)
(* slot.  body is the rest of the file, from SIGNATURE_HEADER_SIZE on.     *)
(***************************************************************************)
SIGNATURE_HEADER_SIZE == 32

SearchLimit == 1024 * 1024

\* the eight bytes of a little-endian u64 below 2^32
WriteU64le(value) == WriteU32(value) \o <<0, 0, 0, 0>>

\* the 20 bytes at offset 12: next_header_offset, next_header_size, next_header_crc
StartHeaderBytes(sh) ==
    WriteU64le(sh.next_header_offset) \o WriteU64le(sh.next_header_size)
    \o WriteU32(sh.next_header_crc)

\* the read_exact of init_archive on the decode stack of the header's block:
\* chain is the outcome of the coders, loop whether their walk never ends
read_decoded_header(block, chain, loop, password) ==
    LET unpack_size == get_unpack_size(block)
        got == Min(unpack_size, Len(chain.v))
        buf == SubSeq(chain.v, 1, got)
        bad_password == IF password # NoPassword THEN Err("MaybeBadPassword") ELSE Err("Io")
    IN IF chain.st = "err" /\ chain.e = "Unsupported" THEN Err("Other")
       ELSE IF chain.st # "ok" THEN chain
       ELSE IF loop THEN [st |-> "diverge", v |-> 0, pos |-> 0, e |-> "loop"]
       ELSE IF unpack_size = 0 THEN Ok(<<>>, 0)
       ELSE IF block.has_crc /\ got = unpack_size /\ Crc32(buf) # block.crc THEN bad_password
       \* read_exact: UnexpectedEof
       ELSE IF got < unpack_size THEN bad_password
       ELSE Ok(buf, 0)

\* the packed stream of the header's block: BoundedReader::new(source, pack_size)
\* after the seek to SIGNATURE_HEADER_SIZE + pack_pos
header_pack_stream(body, block_offset, pack_size) ==
    SubSeq(body, block_offset + 1,
           block_offset + (IF block_offset >= Len(body) THEN 0
                           ELSE Min(pack_size, Len(body) - block_offset)))

\* Archive::read_encoded_header followed by the read_exact of init_archive:
\* the decoded header buffer
read_encoded_header(h, pos, body, password) ==
    Try(read_streams_info(h, pos, ArchiveDefault), LAMBDA si :
    IF si.v.blocks = <<>> THEN Err("Other")
    ELSE IF si.v.pack_sizes = <<>> THEN Err("Other")
    ELSE read_decoded_header(si.v.blocks[1],
             decode_chain(si.v.blocks[1], ordered_coder_iter(si.v.blocks[1]).order, 1, password,
                          header_pack_stream(body, si.v.pack_pos, si.v.pack_sizes[1])),
             ordered_coder_iter(si.v.blocks[1]).loop, password))

\* init_archive from the kHeader id on: h is the header, nid the id read from it
read_header_after(h, nid) ==
    IF nid.v # K_HEADER THEN Err("Other")
    ELSE Try(read_header(h, nid.pos), LAMBDA r :
         Ok([r.v EXCEPT !.is_solid =
                \E b \in 1..Len(r.v.blocks) : r.v.blocks[b].num_unpack_sub_streams > 1], r.pos))

\* init_archive once the next header is in buf
read_next_header(body, buf, password) ==
    Try(read_u8(buf, 1), LAMBDA nid0 :
    Try(IF nid0.v = K_ENCODED_HEADER THEN read_encoded_header(buf, nid0.pos, body, password)
        ELSE Ok(buf, 0), LAMBDA header :
    Try(IF nid0.v = K_ENCODED_HEADER THEN read_u8(header.v, 1) ELSE nid0, LAMBDA nid :
    read_header_after(header.v, nid))))

\* Archive::init_archive
init_archive(body, start_header, password, verify_crc) ==
    \* read_exact(&mut buf)
    IF start_header.next_header_offset + start_header.next_header_size > Len(body)
    THEN Err("Io")
    ELSE IF verify_crc
            /\ Crc32(SubSeq(body, start_header.next_header_offset + 1,
                            start_header.next_header_offset + start_header.next_header_size))
               # start_header.next_header_crc
         THEN Err("NextHeaderCrcMismatch")
    ELSE read_next_header(body,
             SubSeq(body, start_header.next_header_offset + 1,
                    start_header.next_header_offset + start_header.next_header_size),
             password)

\* the id at file position p (bytes 12..31 are the start header slot, all
\* zero on this path)
end_header_id(body, p) ==
    IF p < SIGNATURE_HEADER_SIZE THEN 0 ELSE body[p - SIGNATURE_HEADER_SIZE + 1]

\* the StartHeader try_to_locale_end_header makes for a header at position p
end_start_header(body, p) ==
    [next_header_offset |-> p - SIGNATURE_HEADER_SIZE,
     next_header_size |-> SIGNATURE_HEADER_SIZE + Len(body) - p,
     next_header_crc |-> 0]

\* the loop of try_to_locale_end_header over the results rs of init_archive at
\* the positions that hold a header id: it goes down from the highest and
\* returns the first result that is a failure or has files
end_header_loop(rs) ==
    LET returns == {p \in DOMAIN rs : rs[p].st # "ok" \/ rs[p].v.files # <<>>}
    IN IF returns = {} THEN Err("Other") ELSE rs[SetMax(returns)]

\* Archive::try_to_locale_end_header
try_to_locale_end_header(body, password) ==
    LET reader_len == SIGNATURE_HEADER_SIZE + Len(body)
        stream_position == 12
        min_pos == IF stream_position + SearchLimit > reader_len THEN stream_position
                   ELSE reader_len - SearchLimit
    IN end_header_loop(
           [p \in {q \in min_pos..(reader_len - 2) :
                      end_header_id(body, q) \in {K_ENCODED_HEADER, K_HEADER}} |->
              init_archive(body, end_start_header(body, p), password, FALSE)])

\* header_valid that is false as soon as the CRC or the slot is zero
header_valid_either(sig) ==
    IF sig.start_header_crc = 0 THEN FALSE
    ELSE \E k \in 1..20 : StartHeaderBytes(sig.start_header)[k] # 0

\* the header_valid of Archive::read
header_valid(sig) ==
    IF sig.start_header_crc = 0
    THEN \E k \in 1..20 : StartHeaderBytes(sig.start_header)[k] # 0
    ELSE TRUE

\* Archive::read_start_header
read_start_header(sig) ==
    IF Crc32(StartHeaderBytes(sig.start_header)) # sig.start_header_crc
    THEN Err("ChecksumVerificationFailed")
    ELSE Ok(sig.start_header, 0)

\* Archive::read
Archive_read(sig, body, password) ==
    IF ~sig.signature_ok THEN Err("BadSignature")
    ELSE IF sig.version_major # 0 THEN Err("UnsupportedVersion")
    ELSE IF header_valid(sig)
         THEN LET start_header == read_start_header(sig)
              IN IF start_header.st # "ok" THEN start_header
                 ELSE init_archive(body, start_header.v, password, TRUE)
         ELSE try_to_locale_end_header(body, password)

(***************************************************************************)
(* writer.rs: ArchiveWriter.  An ArchiveEntry of the caller is made by     *)
(* new_file or new_directory; the name of the n-th entry is one code unit. *)
(***************************************************************************)
ArchiveEntryDefault ==
    [name |-> <<>>, has_stream |-> FALSE, is_directory |-> FALSE, is_anti_item |-> FALSE,
     has_crc |-> FALSE, crc |-> 0, size |-> 0, compressed_size |-> 0]

new_file(entry_name) ==
    [ArchiveEntryDefault EXCEPT !.name = entry_name, !.has_stream = TRUE]

new_directory(entry_name) ==
    [ArchiveEntryDefault EXCEPT !.name = entry_name, !.is_directory = TRUE]

\* ArchiveWriter::new followed by set_content_methods
ArchiveWriter_new(methods) ==
    [content_methods |-> methods, files |-> <<>>, pack_info |-> <<>>, unpack_info |-> <<>>,
     output |-> <<>>, encrypt_header |-> TRUE]

\* ArchiveWriter::set_encrypt_header
set_encrypt_header(w, enabled) == [w EXCEPT !.encrypt_header = enabled]

\* PackInfo::add_stream
PackInfo_add_stream(packs, size, crc) == Append(packs, [size |-> size, crc |-> crc])

\* ArchiveWriter::push_archive_entry; reader is <<>> for None and <<data>> for Some
push_archive_entry(w, entry, reader) ==
    IF ~entry.is_directory /\ reader # <<>>
    THEN LET data == reader[1]
             compressed == Stage(w.content_methods, data, 1)
             e == [entry EXCEPT !.has_stream = TRUE, !.size = Len(data), !.crc = Crc32(data),
                                !.has_crc = TRUE, !.compressed_size = Len(compressed)]
         IN [w EXCEPT !.output = @ \o compressed,
                      !.pack_info = PackInfo_add_stream(@, Len(compressed), Crc32(compressed)),
                      !.unpack_info = Append(@, UnpackInfo_add(w.content_methods,
                                          CoderSizes(w.content_methods, data), Crc32(data))),
                      !.files = Append(@, e)]
    ELSE [w EXCEPT !.files = Append(@, [entry EXCEPT !.has_stream = FALSE, !.size = 0,
                                                     !.compressed_size = 0, !.has_crc = FALSE])]

\* ArchiveWriter::push_archive_entries; reader[i] is the data of entries[i]
push_archive_entries(w, entries, reader) ==
    LET data == Flatten(reader)
        compressed == Stage(w.content_methods, data, 1)
        es == [i \in 1..Len(entries) |->
                 [entries[i] EXCEPT !.crc = Crc32(reader[i]), !.size = Len(reader[i]),
                                    !.has_crc = TRUE]]
    IN [w EXCEPT !.output = @ \o compressed,
                 !.pack_info = PackInfo_add_stream(@, Len(compressed), Crc32(compressed)),
                 !.unpack_info = Append(@, UnpackInfo_add_multiple(w.content_methods,
                                     CoderSizes(w.content_methods, data), Crc32(data),
                                     Len(entries),
                                     [i \in 1..Len(entries) |-> es[i].size],
                                     [i \in 1..Len(entries) |-> es[i].crc])),
                 !.files = @ \o es]

\* ArchiveWriter::write_encoded_header.  The LZMA stage of the header is a
\* delegated codec; on the short headers of the model it does not save the
\* 20 bytes the branch asks for, so the raw header is written.
write_encoded_header(w) == write_header(w.files, w.pack_info, w.unpack_info)

\* ArchiveWriter::finish: the signature header and the rest of the file
finish(w) ==
    LET header == write_encoded_header(w)
        start_header == [next_header_offset |-> Len(w.output),
                         next_header_size |-> Len(header),
                         next_header_crc |-> Crc32(header)]
    IN [sig |-> [signature_ok |-> TRUE, version_major |-> 0,
                 start_header_crc |-> Crc32(StartHeaderBytes(start_header)),
                 start_header |-> start_header],
        body |-> w.output \o header]

(***************************************************************************)
(* writer.rs: write_encoded_header with its LZMA stage.  The LZMA encoder  *)
(* is a delegated codec: lzma is the byte stream it emits for the raw      *)
(* header, an input of the model.  The AES stage under it pads the stream  *)
(* with zeros to whole blocks when it is finished.                         *)
(***************************************************************************)
\* EncoderConfiguration::new(EncoderMethod::LZMA): preset 6, a dictionary of 8 MiB
MethodLzma == [id |-> ID_LZMA, props |-> <<93, 0, 0, 128, 0>>]

\* the methods the header is encoded with
header_methods(w) ==
    LET aes == SelectSeq(w.content_methods, LAMBDA conf : conf.id = ID_AES256SHA256)
    IN (IF w.encrypt_header /\ aes # <<>> THEN <<aes[1]>> ELSE <<>>) \o <<MethodLzma>>

\* what the encoders of the header put into encoded_data
header_encoded_data(methods, lzma) ==
    IF Len(methods) = 1 THEN lzma
    ELSE EncodeWith(methods[1],
                    lzma \o [k \in 1..((AES_BLOCK - (Len(lzma) % AES_BLOCK)) % AES_BLOCK) |-> 0])

\* ArchiveWriter::write_encoded_header: the header handed to finish and the
\* bytes written to the output before it
write_encoded_header_from(w, lzma) ==
    LET raw_header == write_header(w.files, w.pack_info, w.unpack_info)
        size == Len(raw_header)
        methods == header_methods(w)
        encoded_data == header_encoded_data(methods, lzma)
        compress_size == Len(encoded_data)
        sizes == (IF Len(methods) = 1 THEN <<>> ELSE <<Len(lzma)>>) \o <<size>>
        unpack_info == <<UnpackInfo_add(methods, sizes, Crc32(raw_header))>>
    IN IF compress_size + 20 >= size
       \* compression made it worse. Write raw data
       THEN [header |-> raw_header, packed |-> <<>>]
       ELSE [header |-> <<K_ENCODED_HEADER>>
                        \o PackInfo_write_to(Len(w.output),
                               PackInfo_add_stream(<<>>, compress_size, Crc32(encoded_data)))
                        \o UnpackInfo_write_to(unpack_info)
                        \o write_substreams(unpack_info)
                        \o <<K_END>>,
             packed |-> encoded_data]

\* ArchiveWriter::finish over the header eh of write_encoded_header
finish_from(w, eh) ==
    LET start_header == [next_header_offset |-> Len(w.output) + Len(eh.packed),
                         next_header_size |-> Len(eh.header),
                         next_header_crc |-> Crc32(eh.header)]
    IN [sig |-> [signature_ok |-> TRUE, version_major |-> 0,
                 start_header_crc |-> Crc32(StartHeaderBytes(start_header)),
                 start_header |-> start_header],
        body |-> w.output \o eh.packed \o eh.header]

(***************************************************************************)
(* What an operation of the reader returned: st is "none" while nothing    *)
(* has returned, "ok", "err" (with the Error), "panic" or "diverge" (the   *)
(* call never returns); data is the Vec<u8> of read_file.                  *)
(***************************************************************************)
NoOutcome == [st |-> "none", err |-> Error(""), data |-> <<>>]

Returned(st, err, data) == [st |-> st, err |-> err, data |-> data]

\* the outcome of a failed step r of the parser or of the decode stack
Failed(r) == Returned(r.st, Error(r.e), <<>>)

(***************************************************************************)
(* reader.rs: BlockDecoder::for_each_entries as read_file runs it, with    *)
(* the closure that reads every entry to its end and stops at the target.  *)
(***************************************************************************)
\* the read of a solid block that does not skip the entries before the target
block_read_first(a, br, i, stop, target, pw) ==
    IF i >= stop \/ i >= Len(a.files) THEN Returned("err", Error("FileNotFound"), <<>>)
    ELSE IF entry_read_to_end(br, a.files[i + 1]).st # "ok"
    THEN Returned("err", Error_io(entry_read_to_end(br, a.files[i + 1]).e), <<>>)
    ELSE Returned("ok", Error(""), entry_read_to_end(br, a.files[i + 1]).v[1])

RECURSIVE block_read_until(_, _, _, _, _, _)
block_read_until(a, br, i, stop, target, pw) ==
    IF i >= stop THEN Returned("err", Error("FileNotFound"), <<>>)
    ELSE IF i >= Len(a.files) THEN Returned("panic", Error("index"), <<>>)
    ELSE LET file == a.files[i + 1]
             r == entry_read_to_end(br, file)
         IN IF file.has_stream /\ file.size > 0
            THEN IF r.st # "ok"
                 THEN Returned("err", maybe_bad_password(Error_io(r.e), pw # NoPassword), <<>>)
                 ELSE IF i = target THEN Returned("ok", Error(""), r.v[1])
                 ELSE block_read_until(a, r.v[2], i + 1, stop, target, pw)
            ELSE IF i = target THEN Returned("ok", Error(""), <<>>)
                 ELSE block_read_until(a, br, i + 1, stop, target, pw)

\* ArchiveReader::fill_index and the lookup of read_file: the index of the
\* last file of that name, -1 when there is none
index_get(a, name) ==
    LET hits == {i \in 0..(Len(a.files) - 1) : a.files[i + 1].name = name}
    IN IF hits = {} THEN -1 ELSE SetMax(hits)

\* ArchiveReader::read_file
read_file(a, name, pw, src, flt) ==
    LET fi == index_get(a, name)
        file == a.files[fi + 1]
        fbi == a.stream_map.file_block_index[fi + 1]
        bi == fbi.v
        stack == build_decode_stack(a, bi, pw, src, flt)
        sm == a.stream_map
        r == entry_read_to_end(stack.v, file)
    IN IF fi < 0 THEN Returned("err", Error("FileNotFound"), <<>>)
       ELSE IF ~file.has_stream THEN Returned("ok", Error(""), <<>>)
       ELSE IF ~fbi.some THEN Returned("err", Error("Other"), <<>>)
       ELSE IF a.is_solid
       THEN IF stack.st # "ok" THEN Failed(stack)
            ELSE block_read_until(a, stack.v, sm.block_first_file_index[bi + 1],
                     sm.block_first_file_index[bi + 1] + a.blocks[bi + 1].num_unpack_sub_streams,
                     fi, pw)
       ELSE IF bi >= Len(sm.block_first_pack_stream_index) THEN Returned("panic", Error("index"), <<>>)
       ELSE IF sm.block_first_pack_stream_index[bi + 1] >= Len(sm.pack_stream_offsets)
            THEN Returned("panic", Error("index"), <<>>)
       ELSE IF stack.st # "ok" THEN Failed(stack)
       \* decoder.read_to_end(&mut data)?
       ELSE IF r.st # "ok" THEN Returned("err", Error_io(r.e), <<>>)
       ELSE Returned("ok", Error(""), r.v[1])

(***************************************************************************)
(* The caller of the writer: the data of an entry, the methods handed to   *)
(* set_content_methods, the name of the n-th entry pushed.                 *)
(***************************************************************************)
Contents == {<<>>, <<1>>, <<2, 3>>}

ContentMethods == {<<MethodCopy>>, <<MethodAes, MethodCopy>>}

EntryName(n) == <<97 + n>>

NoSignatureHeader ==
    [signature_ok |-> FALSE, version_major |-> 0, start_header_crc |-> 0,
     start_header |-> [next_header_offset |-> 0, next_header_size |-> 0,
                       next_header_crc |-> 0]]

(***************************************************************************)
(* The delta filter (src/delta.rs) and its coder property.                 *)
(***************************************************************************)
MAX_DISTANCE == 256

DIS_MASK == MAX_DISTANCE - 1

\* x & DIS_MASK for a non-negative x
MaskDistance(x) == x % (DIS_MASK + 1)

\* Delta::new
Delta_new(distance) ==
    [distance |-> distance, history |-> [i \in 0..(MAX_DISTANCE - 1) |-> 0], pos |-> 0]

\* Delta::decode with the history left holding the byte as it came in
Delta_decode_item_packed(delta, item) ==
    LET h == delta.history[MaskDistance(delta.distance + delta.pos)]
    IN [delta |-> [delta EXCEPT !.history[MaskDistance(delta.pos)] = item,
                                !.pos = (delta.pos + 255) % 256],
        item |-> (item + h) % 256]

\* Delta::decode, the body of its loop: one byte of the buffer
Delta_decode_item(delta, item) ==
    LET h == delta.history[MaskDistance(delta.distance + delta.pos)]
        decoded == (item + h) % 256
    IN [delta |-> [delta EXCEPT !.history[MaskDistance(delta.pos)] = decoded,
                                !.pos = (delta.pos + 255) % 256],
        item |-> decoded]

\* Delta::encode, the body of its loop: one byte of the buffer
Delta_encode_item(delta, item) ==
    LET h == delta.history[MaskDistance(delta.distance + delta.pos)]
    IN [delta |-> [delta EXCEPT !.history[MaskDistance(delta.pos)] = item,
                                !.pos = (delta.pos + 255) % 256],
        item |-> (item + 256 - h) % 256]

RECURSIVE Delta_decode_range(_, _, _, _)
\* the loop of Delta::decode continues over buf[lo..hi] from the state after prefix
Delta_decode_rest(prefix, buf, lo, hi) ==
    LET rest == Delta_decode_range(prefix.delta, buf, lo, hi)
    IN [buf |-> prefix.buf \o rest.buf, delta |-> rest.delta]

\* the loop of Delta::decode over buf[lo..hi], split in halves to bound the nesting
Delta_decode_range(delta, buf, lo, hi) ==
    IF lo > hi THEN [delta |-> delta, buf |-> <<>>]
    ELSE IF lo = hi
    THEN [delta |-> Delta_decode_item(delta, buf[lo]).delta,
          buf |-> <<Delta_decode_item(delta, buf[lo]).item>>]
    ELSE Delta_decode_rest(Delta_decode_range(delta, buf, lo, (lo + hi) \div 2), buf,
                           (lo + hi) \div 2 + 1, hi)

\* Delta::decode: the buffer is decoded in place, the Delta keeps its history
Delta_decode(delta, buf) == Delta_decode_range(delta, buf, 1, Len(buf))

RECURSIVE Delta_encode_range(_, _, _, _)
\* the loop of Delta::encode continues over buf[lo..hi] from the state after prefix
Delta_encode_rest(prefix, buf, lo, hi) ==
    LET rest == Delta_encode_range(prefix.delta, buf, lo, hi)
    IN [buf |-> prefix.buf \o rest.buf, delta |-> rest.delta]

\* the loop of Delta::encode over buf[lo..hi], split in halves to bound the nesting
Delta_encode_range(delta, buf, lo, hi) ==
    IF lo > hi THEN [delta |-> delta, buf |-> <<>>]
    ELSE IF lo = hi
    THEN [delta |-> Delta_encode_item(delta, buf[lo]).delta,
          buf |-> <<Delta_encode_item(delta, buf[lo]).item>>]
    ELSE Delta_encode_rest(Delta_encode_range(delta, buf, lo, (lo + hi) \div 2), buf,
                           (lo + hi) \div 2 + 1, hi)

\* Delta::encode
Delta_encode(delta, buf) == Delta_encode_range(delta, buf, 1, Len(buf))

\* DeltaOptions::from_distance
DeltaOptions_from_distance(distance) ==
    IF distance = 0 THEN 1 ELSE IF distance > 256 THEN 256 ELSE distance

\* get_options_as_properties, ID_DELTA: saturating_sub(1) as u8
get_options_as_properties_delta(options) ==
    <<(IF options = 0 THEN 0 ELSE options - 1) % 256>>

\* add_decoder, ID_DELTA: the distance of the DeltaReader, computed in u8
add_decoder_delta_distance(properties) ==
    IF properties = <<>> THEN 1 ELSE (properties[1] + 1) % 256

(***************************************************************************)
(* The chain of encoders of create_writer (src/writer.rs, src/encoder.rs,  *)
(* src/encryption/aes.rs, src/brotli.rs).  Data is kept by its length.  A  *)
(* compressing encoder passes on as many bytes as it took.  chain[1] wraps *)
(* the output, the last encoder of the chain is the outermost one.         *)
(***************************************************************************)
\* the bytes write_frame puts before the compressed data of a frame
FRAME_HEADER == 16

\* the frame size of the BrotliEncoder, in bytes
FrameSize == 20

\* the bytes LZMA2Writer::finish adds to end the stream
FinishLen == 1

\* add_encoder: a fresh encoder of the method
Encoder_new(kind) == [kind |-> kind, buffered |-> 0, finished |-> FALSE, flush_blocks |-> 0]

\* ArchiveWriter::create_writer over an output that has taken nothing
create_writer(methods) ==
    [chain |-> [k \in 1..Len(methods) |-> Encoder_new(methods[k])],
     out |-> [bytes |-> 0, empty_writes |-> 0, flushes |-> 0],
     panic |-> FALSE]

\* a flush that writes a block whenever the encoder is finished
Aes256Sha256Encoder_flush_always(st, k) ==
    IF st.chain[k].finished
    THEN [st EXCEPT !.chain[k].buffered = 0, !.chain[k].flush_blocks = @ + 1]
    ELSE st

\* Aes256Sha256Encoder::flush: the buffered bytes go out as one block once finished
Aes256Sha256Encoder_flush_block(st, k) ==
    IF st.chain[k].buffered # 0 /\ st.chain[k].finished
    THEN [st EXCEPT !.chain[k].buffered = 0, !.chain[k].flush_blocks = @ + 1]
    ELSE st

\* the number of bytes Aes256Sha256Encoder::flush hands to its output
Aes256Sha256Encoder_flush_len(st, k) ==
    IF st.chain[k].buffered # 0 /\ st.chain[k].finished THEN AES_BLOCK ELSE 0

\* Aes256Sha256Encoder::write with data: the full blocks of buffer and data
\* go out, the rest stays in the buffer
Aes256Sha256Encoder_write_blocks(st, k, n) ==
    IF st.chain[k].buffered # 0 /\ n + st.chain[k].buffered < AES_BLOCK
    THEN 0
    ELSE ((st.chain[k].buffered + n) \div AES_BLOCK) * AES_BLOCK

\* BrotliEncoder::write, framed: the bytes of the frames that n bytes complete
BrotliEncoder_write_frames(st, k, n) ==
    ((st.chain[k].buffered + n) \div FrameSize) * (FRAME_HEADER + FrameSize)

RECURSIVE Encoder_write(_, _, _)
\* write of n bytes to the inner writer of an encoder when there are any
Inner_write_all(st, k, n) == IF n = 0 THEN st ELSE Encoder_write(st, k, n)

\* impl Write for Encoder, write: n bytes to encoder k of the chain, 0 for
\* the output below the chain
Encoder_write(st, k, n) ==
    IF st.panic THEN st
    ELSE IF k = 0
    THEN [st EXCEPT !.out.bytes = @ + n,
                    !.out.empty_writes = @ + (IF n = 0 THEN 1 ELSE 0)]
    ELSE IF st.chain[k].kind \in {"COPY", "DELTA"}
    THEN Encoder_write(st, k - 1, n)
    ELSE IF st.chain[k].kind = "LZMA2"
    THEN \* w.take().unwrap() and w.as_mut().unwrap()
         IF st.chain[k].finished THEN [st EXCEPT !.panic = TRUE]
         ELSE IF n = 0
         THEN Encoder_write(
                  Encoder_write([st EXCEPT !.chain[k].finished = TRUE, !.chain[k].buffered = 0],
                                k - 1, st.chain[k].buffered + FinishLen),
                  k - 1, 0)
         ELSE [st EXCEPT !.chain[k].buffered = @ + n]
    ELSE IF st.chain[k].kind = "BROTLI"
    THEN \* BrotliEncoder::write, framed: an empty buffer does not enter the loop
         IF n = 0 THEN st
         ELSE Inner_write_all([st EXCEPT !.chain[k].buffered = (@ + n) % FrameSize],
                              k - 1, BrotliEncoder_write_frames(st, k, n))
    ELSE \* Aes256Sha256Encoder::write
         IF st.chain[k].finished /\ n # 0 THEN st
         ELSE IF n = 0
         THEN Encoder_write(
                  Inner_write_all(
                      Aes256Sha256Encoder_flush_block([st EXCEPT !.chain[k].finished = TRUE], k),
                      k - 1,
                      Aes256Sha256Encoder_flush_len([st EXCEPT !.chain[k].finished = TRUE], k)),
                  k - 1, 0)
         ELSE Inner_write_all([st EXCEPT !.chain[k].buffered = (@ + n) % AES_BLOCK],
                              k - 1, Aes256Sha256Encoder_write_blocks(st, k, n))

RECURSIVE Encoder_flush(_, _)
\* impl Write for Encoder, flush
Encoder_flush(st, k) ==
    IF st.panic THEN st
    ELSE IF k = 0 THEN [st EXCEPT !.out.flushes = @ + 1]
    ELSE IF st.chain[k].kind \in {"COPY", "DELTA"}
    THEN Encoder_flush(st, k - 1)
    ELSE IF st.chain[k].kind = "LZMA2"
    THEN \* w.as_mut().unwrap().flush(): what is buffered goes to the inner writer
         IF st.chain[k].finished THEN [st EXCEPT !.panic = TRUE]
         ELSE Encoder_flush(Inner_write_all([st EXCEPT !.chain[k].buffered = 0],
                                            k - 1, st.chain[k].buffered),
                            k - 1)
    ELSE IF st.chain[k].kind = "BROTLI"
    THEN \* BrotliEncoder::flush, framed: the open frame is written, then writer.flush()
         Encoder_flush(Inner_write_all([st EXCEPT !.chain[k].buffered = 0], k - 1,
                                       IF st.chain[k].buffered = 0 THEN 0
                                       ELSE FRAME_HEADER + st.chain[k].buffered),
                       k - 1)
    ELSE \* Aes256Sha256Encoder::flush: its output is not flushed
         Inner_write_all(Aes256Sha256Encoder_flush_block(st, k), k - 1,
                         Aes256Sha256Encoder_flush_len(st, k))

\* no chain of encoders has been built
EncoderIdle ==
    /\ encoder = create_writer(<<>>)
    /\ encoder_written = 0
    /\ encoder_pc = "idle"

(***************************************************************************)
(* The PPMd7 decoder (src/ppmd-rust): the ByteReader that feeds the range  *)
(* decoder and the read of Ppmd7Decoder.  Ppmd7z_DecodeSymbol is the       *)
(* routine of the linked ppmd library: the model keeps of it the bytes it  *)
(* asks its stream for while normalizing (none, one or two, as in          *)
(* normalize_remote) and the symbol it returns; both depend on the         *)
(* compressed data and are inputs of the read.                             *)
(***************************************************************************)
PPMD7_SYM_END == -1

\* the symbol Ppmd7z_DecodeSymbol returns for data it cannot decode
PPMD7_SYM_ERROR == -2

\* the size of the buffer of the ByteReader
ByteBufferSize == 2

\* Read::read of the underlying reader into the buffer: the read number
\* fail_on raises an I/O error, every other one takes what is left
Reader_read(reader) ==
    IF reader.reads + 1 = reader.fail_on
    THEN [st |-> "err", n |-> 0, reader |-> [reader EXCEPT !.reads = @ + 1]]
    ELSE [st |-> "ok",
          n |-> IF reader.left < ByteBufferSize THEN reader.left ELSE ByteBufferSize,
          reader |-> [reader EXCEPT !.reads = @ + 1,
                                    !.left = IF @ < ByteBufferSize THEN 0
                                             ELSE @ - ByteBufferSize]]

\* ByteReader::read_byte after its buffer ran out: r is what the reader gave
ByteReader_refill(br, r) ==
    IF r.st = "err"
    THEN [br EXCEPT !.eof = TRUE, !.reader = r.reader, !.raised = @ + 1]
    ELSE IF r.n = 0
    THEN [br EXCEPT !.eof = TRUE, !.reader = r.reader]
    ELSE [br EXCEPT !.end_ = r.n, !.pos = 1, !.reader = r.reader]

\* ByteReader::read_byte: the state of the reader after handing out one
\* byte, which is 0 once eof is set
ByteReader_read_byte(br) ==
    IF br.eof THEN br
    ELSE IF br.pos >= br.end_ THEN ByteReader_refill(br, Reader_read(br.reader))
    ELSE [br EXCEPT !.pos = @ + 1]

\* the normalization of the range decoder: norm bytes are taken from the stream
Range_Normalize(br, norm) ==
    IF norm = 0 THEN br
    ELSE IF norm = 1 THEN ByteReader_read_byte(br)
    ELSE ByteReader_read_byte(ByteReader_read_byte(br))

\* Ppmd7Decoder::read, its loop over the buffer from index i: script[i] is
\* what decoding the symbol i asks for and gives
RECURSIVE Ppmd7Decoder_read_loop(_, _, _, _)
Ppmd7Decoder_read_loop(br, script, i, sym) ==
    IF i > Len(script) THEN [br |-> br, sym |-> sym, decoded |-> i - 1]
    ELSE IF script[i].sym < 0
    THEN [br |-> Range_Normalize(br, script[i].norm), sym |-> script[i].sym, decoded |-> i - 1]
    ELSE Ppmd7Decoder_read_loop(Range_Normalize(br, script[i].norm), script, i + 1,
                                script[i].sym)

\* Ppmd7Decoder::read, after its loop: l is the loop's result
Ppmd7Decoder_read_result(p, l, code_zero) ==
    IF l.sym >= 0
    THEN [ppmd |-> [p EXCEPT !.reader = l.br], st |-> "ok", n |-> l.decoded]
    ELSE IF l.sym # PPMD7_SYM_END \/ ~code_zero
    THEN [ppmd |-> [p EXCEPT !.reader = l.br, !.finished = TRUE],
          st |-> "InvalidData", n |-> 0]
    ELSE [ppmd |-> [p EXCEPT !.reader = l.br, !.finished = TRUE],
          st |-> "ok", n |-> l.decoded]

\* impl Read for Ppmd7Decoder: read into a buffer of Len(script) bytes
Ppmd7Decoder_read(p, script, code_zero) ==
    IF p.finished \/ script = <<>>
    THEN [ppmd |-> [p EXCEPT !.reader.raised = 0], st |-> "ok", n |-> 0]
    ELSE Ppmd7Decoder_read_result(p,
             Ppmd7Decoder_read_loop([p.reader EXCEPT !.raised = 0], script, 1, 0),
             code_zero)

\* Ppmd7Decoder::new over a reader that has left bytes after those the
\* initialization of the range decoder took
Ppmd7Decoder_new(left, fail_on) ==
    [reader |-> [pos |-> 0, end_ |-> 0, eof |-> FALSE, raised |-> 0,
                 reader |-> [left |-> left, reads |-> 0, fail_on |-> fail_on]],
     finished |-> FALSE]

\* no PPMd7 decoder has been created
PpmdIdle ==
    /\ ppmd = Ppmd7Decoder_new(0, 0)
    /\ ppmd_outcome = [st |-> "none", n |-> 0, raised |-> 0]

(***************************************************************************)
(* The sub-readers of a block with several packed streams (src/reader.rs): *)
(* SeekableBoundedReader over clones of one ReaderPointer.                 *)
(***************************************************************************)
\* the byte of the shared source at the absolute position p
SourceByte(p) == (p * 37 + 11) % 256

\* Seek::seek(SeekFrom::Start(pos)) of the shared source through a ReaderPointer
ReaderPointer_seek(src, pos) == [src EXCEPT !.pos = pos]

\* the number of bytes Read::read of the shared source gives for a buffer of
\* n bytes when short bytes fewer than possible are returned
ReaderPointer_read_size(src, n, short) ==
    IF src.pos >= src.len THEN 0
    ELSE IF (IF n < src.len - src.pos THEN n ELSE src.len - src.pos) > short
    THEN (IF n < src.len - src.pos THEN n ELSE src.len - src.pos) - short
    ELSE 1

\* SeekableBoundedReader::new
SeekableBoundedReader_new(lo, hi) == [cur |-> lo, bounds |-> <<lo, hi>>, yielded |-> <<>>]

\* build_decode_stack2: the readers of the packed streams of a block
pack_stream_readers(start_pos, pack_sizes) ==
    [i \in 1..Len(pack_sizes) |->
        SeekableBoundedReader_new(start_pos + SeqSum(SubSeq(pack_sizes, 1, i - 1)),
                                  start_pos + SeqSum(SubSeq(pack_sizes, 1, i)))]

\* the read of a SeekableBoundedReader that reads where the source stands
SeekableBoundedReader_read_in_place(r, src, n, short) ==
    IF r.cur >= r.bounds[2] THEN [reader |-> r, src |-> src]
    ELSE [reader |-> [r EXCEPT
                        !.cur = @ + ReaderPointer_read_size(src,
                                    IF n < r.bounds[2] - r.cur THEN n ELSE r.bounds[2] - r.cur,
                                    short),
                        !.yielded = @ \o [j \in 1..ReaderPointer_read_size(src,
                                    IF n < r.bounds[2] - r.cur THEN n ELSE r.bounds[2] - r.cur,
                                    short) |-> SourceByte(src.pos + j - 1)]],
          src |-> [src EXCEPT !.pos = @ + ReaderPointer_read_size(src,
                                    IF n < r.bounds[2] - r.cur THEN n ELSE r.bounds[2] - r.cur,
                                    short)]]

\* SeekableBoundedReader::read past `if self.cur >= self.bounds.1`: src is the
\* source after stream_position(), size the result of inner.read(buf2)
SeekableBoundedReader_read_at(r, src, size) ==
    [reader |-> [r EXCEPT !.cur = @ + size,
                          !.yielded = @ \o [j \in 1..size |-> SourceByte(src.pos + j - 1)]],
     src |-> [src EXCEPT !.pos = @ + size]]

\* SeekableBoundedReader::read into a buffer of n bytes.  stream_position()
\* is seek(SeekFrom::Current(0)) of the SeekableBoundedReader itself, which
\* seeks the inner reader to cur and returns the position reached
SeekableBoundedReader_read(r, src, n, short) ==
    IF r.cur >= r.bounds[2] THEN [reader |-> r, src |-> src]
    ELSE SeekableBoundedReader_read_at(r, ReaderPointer_seek(src, r.cur),
             ReaderPointer_read_size(ReaderPointer_seek(src, r.cur),
                 IF n < r.bounds[2] - r.cur THEN n ELSE r.bounds[2] - r.cur, short))

\* no block with several packed streams is being read
PackIdle ==
    /\ shared_source = [len |-> 0, pos |-> 0]
    /\ pack_readers = <<>>
    /\ pack_reads = [last |-> 0, switches |-> 0]

(***************************************************************************)
(* ppmd-rust/src/internal/ppmd7/range_coding.rs.  A u32 is the sequence of *)
(* its four bytes, the most significant first, so that the arithmetic on   *)
(* `range` keeps the width it has in the code.  `code`, `low` and the      *)
(* cache decide which symbol is coded and which bytes are put out; they    *)
(* never enter the computation of `range` and are left out, and the reader *)
(* and the writer beneath the coder do not fail.  bytes counts the bytes   *)
(* the normalizations have read (decoder) or shifted out of low (encoder). *)
(***************************************************************************)
PPMD_INT_BITS == 7

PPMD_PERIOD_BITS == 7

PPMD_BIN_SCALE == 2 ^ (PPMD_INT_BITS + PPMD_PERIOD_BITS)

\* 1 << 24
K_TOP_VALUE == <<1, 0, 0, 0>>

\* the u32 of a number below 2^31
U32(n) == <<(n \div 16777216) % 256, (n \div 65536) % 256, (n \div 256) % 256, n % 256>>

\* x < y
U32_lt(x, y) == \E i \in 1..4 : x[i] < y[i] /\ \A j \in 1..(i - 1) : x[j] = y[j]

\* x << 8
U32_shl8(x) == <<x[2], x[3], x[4], 0>>

\* x >> 14, a number below 2^18
U32_shr14(x) == (x[1] * 65536 + x[2] * 256 + x[3]) \div 64

\* x / d for 0 < d < 2^16, by long division
U32_div(x, d) ==
    LET r1 == x[1] % d
        r2 == (r1 * 256 + x[2]) % d
        r3 == (r2 * 256 + x[3]) % d
    IN  <<x[1] \div d, (r1 * 256 + x[2]) \div d, (r2 * 256 + x[3]) \div d,
          (r3 * 256 + x[4]) \div d>>

\* x * m for m < 2^16, wrapping at 2^32
U32_mul(x, m) ==
    LET p0 == x[4] * m
        p1 == x[3] * m + p0 \div 256
        p2 == x[2] * m + p1 \div 256
        p3 == x[1] * m + p2 \div 256
    IN  <<p3 % 256, p2 % 256, p1 % 256, p0 % 256>>

\* x - y, wrapping at 2^32
U32_sub(x, y) ==
    LET d0 == x[4] - y[4]
        d1 == x[3] - y[3] - (IF d0 < 0 THEN 1 ELSE 0)
        d2 == x[2] - y[2] - (IF d1 < 0 THEN 1 ELSE 0)
        d3 == x[1] - y[1] - (IF d2 < 0 THEN 1 ELSE 0)
    IN  <<(d3 + 256) % 256, (d2 + 256) % 256, (d1 + 256) % 256, (d0 + 256) % 256>>

\* mod.rs ppmd_get_mean: ppmd_get_mean_spec(summ, PPMD_PERIOD_BITS, 2)
ppmd_get_mean(summ) == (summ + 2 ^ (PPMD_PERIOD_BITS - 2)) \div 2 ^ PPMD_PERIOD_BITS

ppmd_update_prob_1(prob) == prob - ppmd_get_mean(prob)

\* RangeDecoder::new and RangeEncoder::new: range: 0xFFFFFFFF
RangeCoder_new == [range |-> <<255, 255, 255, 255>>, bytes |-> 0]

\* self.range /= total
RangeDecoder_get_threshold(r, total) == [r EXCEPT !.range = U32_div(@, total)]

RangeDecoder_normalize_remote_once(r) ==
    IF U32_lt(r.range, K_TOP_VALUE)
    THEN [range |-> U32_shl8(r.range), bytes |-> r.bytes + 1]
    ELSE r

RangeDecoder_normalize_remote(r) ==
    IF U32_lt(r.range, K_TOP_VALUE)
    THEN IF U32_lt(U32_shl8(r.range), K_TOP_VALUE)
         THEN [range |-> U32_shl8(U32_shl8(r.range)), bytes |-> r.bytes + 2]
         ELSE [range |-> U32_shl8(r.range), bytes |-> r.bytes + 1]
    ELSE r

RangeDecoder_normalize_1(r) ==
    IF U32_lt(r.range, K_TOP_VALUE)
    THEN [range |-> U32_shl8(r.range), bytes |-> r.bytes + 1]
    ELSE r

RangeDecoder_decode_bit_0(r, size) == RangeDecoder_normalize_1([r EXCEPT !.range = size])

RangeDecoder_decode_bit_1(r, size) == [r EXCEPT !.range = U32_sub(@, size)]

RangeDecoder_decode(r, start, size) == [r EXCEPT !.range = U32_mul(@, size)]

RangeDecoder_decode_final(r, start, freq) ==
    RangeDecoder_normalize_remote(RangeDecoder_decode(r, start, freq))

RangeEncoder_normalize_remote(r) ==
    IF U32_lt(r.range, K_TOP_VALUE)
    THEN IF U32_lt(U32_shl8(r.range), K_TOP_VALUE)
         THEN [range |-> U32_shl8(U32_shl8(r.range)), bytes |-> r.bytes + 2]
         ELSE [range |-> U32_shl8(r.range), bytes |-> r.bytes + 1]
    ELSE r

RangeEncoder_normalize_1(r) ==
    IF U32_lt(r.range, K_TOP_VALUE)
    THEN [range |-> U32_shl8(r.range), bytes |-> r.bytes + 1]
    ELSE r

RangeEncoder_encode_bit_0(r, bound) == RangeEncoder_normalize_1([r EXCEPT !.range = bound])

RangeEncoder_encode_bit_1(r, bound) == [r EXCEPT !.range = U32_sub(@, bound)]

RangeEncoder_encode(r, start, size) == [r EXCEPT !.range = U32_mul(@, size)]

RangeEncoder_encode_final(r, start, freq) ==
    RangeEncoder_normalize_remote(RangeEncoder_encode(r, start, freq))

\* decoder.rs 63, encoder.rs 53: (range >> 14) * pr
bit_bound(r, pr) == U32_mul(U32(U32_shr14(r.range)), pr)

\* no range coder is running
RangeIdle ==
    /\ rc = RangeCoder_new
    /\ rc_pc = [coder |-> "none", at |-> "symbol", normalized |-> "none", steps |-> 0]
    /\ bin_summ = 0

(***************************************************************************)
(* ppmd-rust/src/internal/ppmd7.rs: the statistics of one Context.  A      *)
(* Context is num_stats, summ_freq and its states in the order they have   *)
(* in memory; a State is its symbol and its freq.  The state of a context  *)
(* with one state lies in the place of summ_freq (union2), which is kept   *)
(* as 0 then.  s is the index (from 1) of found_state in the states.  The  *)
(* result of an operation is the context, found_state, and whether rescale *)
(* ran and whether it made the context a single-symbol one.                *)
(***************************************************************************)
MAX_FREQ == 124

\* the casts `as u8` and `as u16`
U8(n) == n % 256

U16(n) == n % 65536

\* a new single-symbol context of create_successors
OneState(symbol, freq) ==
    [num_stats |-> 1, summ_freq |-> 0, stats |-> <<[symbol |-> symbol, freq |-> freq]>>]

Updated(c, s) == [context |-> c, found |-> s, rescaled |-> FALSE, collapsed |-> FALSE]

\* swap_states(s): s and s - 1 change places
swap_states(stats, s) == [stats EXCEPT ![s - 1] = stats[s], ![s] = stats[s - 1]]

\* rescale, "Sort the list by freq": the states before s move up by one
\* place and s takes the first
rescale_found_first(stats, s) ==
    <<stats[s]>> \o SubSeq(stats, 1, s - 1) \o SubSeq(stats, s + 1, Len(stats))

\* rescale: where the loop over s1 stops, entered with s1 one below the
\* state: at the first state, or below a state of no lesser freq
RECURSIVE rescale_position(_, _, _)
rescale_position(stats, p, freq) ==
    IF p # 1 /\ freq > stats[p - 1].freq THEN rescale_position(stats, p - 1, freq) ELSE p

\* the state at i is put at p, the states from p to i - 1 move up by one
rescale_insert(stats, i, p) ==
    SubSeq(stats, 1, p - 1) \o <<stats[i]>> \o SubSeq(stats, p, i - 1)
        \o SubSeq(stats, i + 1, Len(stats))

\* rescale, the loop over the states after the first: r is the states,
\* sum_freq and esc_freq before the state at i
RECURSIVE rescale_states(_, _, _)
rescale_states(r, i, adder) ==
    IF i > Len(r.stats) THEN r
    ELSE rescale_states(
             [stats |->
                 IF (r.stats[i].freq + adder) \div 2 > r.stats[i - 1].freq
                 THEN rescale_insert(
                          [r.stats EXCEPT ![i].freq = U8((r.stats[i].freq + adder) \div 2)], i,
                          rescale_position(r.stats, i - 1, (r.stats[i].freq + adder) \div 2))
                 ELSE [r.stats EXCEPT ![i].freq = U8((r.stats[i].freq + adder) \div 2)],
              sum_freq |-> r.sum_freq + (r.stats[i].freq + adder) \div 2,
              esc_freq |-> r.esc_freq - r.stats[i].freq],
             i + 1, adder)

\* rescale that removes no state
rescale_removed_none(stats, n) == 0

\* rescale, "Remove all items with freq == 0": the number of states with
\* freq 0 at the end of the states, counted from the last
RECURSIVE rescale_removed(_, _)
rescale_removed(stats, n) ==
    IF n > 0 /\ stats[n].freq = 0 THEN 1 + rescale_removed(stats, n - 1) ELSE 0

\* rescale, "Create Single-Symbol context": the loop
\*   loop { esc_freq >>= 1; freq += 1 >> 1; if esc_freq <= 1 { break; } }
RECURSIVE rescale_single_freq(_, _)
rescale_single_freq(freq, esc_freq) ==
    IF esc_freq \div 2 <= 1 THEN freq + (1 \div 2)
    ELSE rescale_single_freq(freq + (1 \div 2), esc_freq \div 2)

\* rescale after the loop over the states: i is the number of states removed
rescale_end(c, r, i) ==
    IF i > 0 /\ c.num_stats - i = 1
    THEN [context |->
             OneState(r.stats[1].symbol,
                      U8(rescale_single_freq(r.stats[1].freq, r.esc_freq + i))),
          found |-> 1, rescaled |-> TRUE, collapsed |-> TRUE]
    ELSE [context |->
             [num_stats |-> c.num_stats - i,
              summ_freq |-> U16(r.sum_freq + (r.esc_freq + i) - ((r.esc_freq + i) \div 2)),
              stats |-> SubSeq(r.stats, 1, c.num_stats - i)],
          found |-> 1, rescaled |-> TRUE, collapsed |-> FALSE]

\* rescale with the found state at the front: adder is order_fall != 0
rescale_from(c, front, adder) ==
    rescale_end(c,
        rescale_states(
            [stats |-> [front EXCEPT ![1].freq = U8((front[1].freq + 4 + adder) \div 2)],
             sum_freq |-> (front[1].freq + 4 + adder) \div 2,
             esc_freq |-> c.summ_freq - front[1].freq],
            2, adder),
        rescale_removed(
            rescale_states(
                [stats |-> [front EXCEPT ![1].freq = U8((front[1].freq + 4 + adder) \div 2)],
                 sum_freq |-> (front[1].freq + 4 + adder) \div 2,
                 esc_freq |-> c.summ_freq - front[1].freq],
                2, adder).stats,
            c.num_stats))

rescale(c, s, order_fall) ==
    rescale_from(c, rescale_found_first(c.stats, s), IF order_fall # 0 THEN 1 ELSE 0)

\* update1: the symbol is a state of min_context after the first
update1(c, s, order_fall) ==
    IF c.stats[s].freq + 4 > c.stats[s - 1].freq
    THEN IF c.stats[s].freq + 4 > MAX_FREQ
         THEN rescale([c EXCEPT !.summ_freq = U16(@ + 4),
                                !.stats = swap_states(
                                    [c.stats EXCEPT ![s].freq = U8(@ + 4)], s)],
                      s - 1, order_fall)
         ELSE Updated([c EXCEPT !.summ_freq = U16(@ + 4),
                                !.stats = swap_states(
                                    [c.stats EXCEPT ![s].freq = U8(@ + 4)], s)],
                      s - 1)
    ELSE Updated([c EXCEPT !.summ_freq = U16(@ + 4), !.stats[s].freq = U8(@ + 4)], s)

\* update1_0: the symbol is the first state of min_context
update1_0(c, s, order_fall) ==
    IF c.stats[s].freq + 4 > MAX_FREQ
    THEN rescale([c EXCEPT !.summ_freq = U16(@ + 4), !.stats[s].freq = U8(@ + 4)],
                 s, order_fall)
    ELSE Updated([c EXCEPT !.summ_freq = U16(@ + 4), !.stats[s].freq = U8(@ + 4)], s)

\* update2: the symbol is a state of a suffix context, found after an escape
update2(c, s, order_fall) ==
    IF c.stats[s].freq + 4 > MAX_FREQ
    THEN rescale([c EXCEPT !.summ_freq = U16(@ + 4), !.stats[s].freq = U8(@ + 4)],
                 s, order_fall)
    ELSE Updated([c EXCEPT !.summ_freq = U16(@ + 4), !.stats[s].freq = U8(@ + 4)], s)

\* update_bin: the symbol is the state of a context with one state
update_bin(c) ==
    Updated([c EXCEPT !.stats[1].freq = U8(@ + (IF @ < 128 THEN 1 ELSE 0))], 1)

\* update_model, "Update freqs in suffix context", with the state found:
\* after the swap s is the state one place down
update_model_suffix_freq(c, s) ==
    IF c.stats[s].freq < MAX_FREQ - 9
    THEN Updated([c EXCEPT !.stats[s].freq = @ + 2, !.summ_freq = U16(@ + 2)], s)
    ELSE Updated(c, s)

\* update_model, "Update freqs in suffix context": c is the suffix of
\* min_context and s its state of the symbol of found_state
update_model_suffix(c, s) ==
    IF c.num_stats = 1
    THEN Updated([c EXCEPT !.stats[1].freq = IF @ < 32 THEN @ + 1 ELSE @], 1)
    ELSE IF s # 1 /\ c.stats[s].freq >= c.stats[s - 1].freq
         THEN update_model_suffix_freq([c EXCEPT !.stats = swap_states(@, s)], s - 1)
         ELSE update_model_suffix_freq(c, s)

\* update_model, the loop `while c != mc`: the freq the first state of c has
\* when the new state comes, and sum before the freq of the new state
update_model_first_freq(c) ==
    IF c.num_stats # 1 THEN c.stats[1].freq
    ELSE IF c.stats[1].freq < MAX_FREQ \div 4 - 1 THEN 2 * c.stats[1].freq
    ELSE MAX_FREQ - 4

update_model_sum(c, ns, init_esc) ==
    IF c.num_stats # 1
    THEN c.summ_freq + (IF 2 * c.num_stats < ns THEN 1 ELSE 0)
         + 2 * (IF 4 * c.num_stats <= ns /\ c.summ_freq <= 8 * c.num_stats THEN 1 ELSE 0)
    ELSE update_model_first_freq(c) + init_esc + (IF ns > 3 THEN 1 ELSE 0)

\* the freq of the new state: cf is 2 * (sum + 6) * found_state.freq, sf is s0 + sum
update_model_cf(cf, sf) ==
    IF cf < 6 * sf
    THEN 1 + (IF cf > sf THEN 1 ELSE 0) + (IF cf >= 4 * sf THEN 1 ELSE 0)
    ELSE 4 + (IF cf >= 9 * sf THEN 1 ELSE 0) + (IF cf >= 12 * sf THEN 1 ELSE 0)
           + (IF cf >= 15 * sf THEN 1 ELSE 0)

\* the loop with sum and the freq of the new state known
update_model_state(c, symbol, sum, cf, small) ==
    Updated([num_stats |-> c.num_stats + 1,
             summ_freq |-> U16(IF small THEN sum + 3 ELSE sum + cf),
             stats |-> Append([c.stats EXCEPT ![1].freq = U8(update_model_first_freq(c))],
                              [symbol |-> symbol, freq |-> U8(cf)])],
            c.num_stats + 1)

\* update_model, one round of the loop: c, a context between max_context
\* and min_context, gets a state for the symbol found in min_context, which
\* has ns states, the found one with freq found_freq, and s0 beside them
update_model_add(c, symbol, ns, s0, found_freq, init_esc) ==
    update_model_state(c, symbol, update_model_sum(c, ns, init_esc),
        update_model_cf(2 * (update_model_sum(c, ns, init_esc) + 6) * found_freq,
                        s0 + update_model_sum(c, ns, init_esc)),
        2 * (update_model_sum(c, ns, init_esc) + 6) * found_freq
            < 6 * (s0 + update_model_sum(c, ns, init_esc)))

\* no context is looked at
ModelIdle ==
    /\ min_context = OneState(0, 1)
    /\ found_state = 1
    /\ model_pc = [op |-> "none", rescaled |-> FALSE, collapsed |-> FALSE,
                   sorted_before |-> FALSE, steps |-> 0]

\* no PPMd7 coder of ppmd-rust is running
Ppmd7Idle ==
    /\ RangeIdle
    /\ ModelIdle

\* no delta coder has been set up
DeltaIdle ==
    /\ delta_options = 1
    /\ delta_properties = <<>>
    /\ delta_writer = Delta_new(1)
    /\ delta_reader = Delta_new(1)
    /\ delta_plain = <<>>
    /\ delta_packed = <<>>
    /\ delta_unpacked = <<>>

CodecsIdle ==
    /\ Ppmd7Idle
    /\ DeltaIdle
    /\ EncoderIdle
    /\ PpmdIdle
    /\ PackIdle

\* the state of a reader that has not been created
ReaderIdle ==
    /\ reader_password = NoPassword
    /\ source_fault = FALSE
    /\ archive = ArchiveDefault
    /\ end_scan = FALSE
    /\ current_block = 0
    /\ file_index = 0
    /\ block_reader = NoReader
    /\ calls = <<>>
    /\ all_true = TRUE
    /\ outcome = NoOutcome

InitWriter ==
    /\ overflow_checks = TRUE
    /\ \E methods \in ContentMethods : writer = ArchiveWriter_new(methods)
    /\ pushed = <<>>
    /\ signature_header = NoSignatureHeader
    /\ source = <<>>
    /\ pc = "writing"
    /\ ReaderIdle
    /\ CodecsIdle

reader_vars == <<reader_password, source_fault, archive, end_scan, current_block, file_index,
                 block_reader, calls, all_true, outcome>>

\* the caller pushes one entry, with or without a reader
PushArchiveEntry ==
    /\ pc = "writing"
    /\ Len(writer.files) < MaxFiles
    /\ \E directory \in BOOLEAN, reader \in {<<>>} \cup {<<d>> : d \in Contents} :
         LET name == EntryName(Len(writer.files))
             entry == IF directory THEN new_directory(name) ELSE new_file(name)
         IN /\ directory => reader = <<>>
            /\ writer' = push_archive_entry(writer, entry, reader)
            /\ pushed' = Append(pushed, [entry |-> entry, reader |-> reader])
    /\ UNCHANGED <<overflow_checks, signature_header, source, pc>>
    /\ UNCHANGED reader_vars
    /\ UNCHANGED codec_vars

\* the caller pushes a solid batch of files
PushArchiveEntries ==
    /\ pc = "writing"
    /\ \E n \in 1..MaxBatch :
         /\ Len(writer.files) + n <= MaxFiles
         /\ \E reader \in [1..n -> Contents] :
              LET entries == [i \in 1..n |-> new_file(EntryName(Len(writer.files) + i - 1))]
              IN /\ writer' = push_archive_entries(writer, entries, reader)
                 /\ pushed' = pushed \o [i \in 1..n |->
                                           [entry |-> entries[i], reader |-> <<reader[i]>>]]
    /\ UNCHANGED <<overflow_checks, signature_header, source, pc>>
    /\ UNCHANGED reader_vars
    /\ UNCHANGED codec_vars

\* ArchiveWriter::finish
Finish ==
    /\ pc = "writing"
    /\ signature_header' = finish(writer).sig
    /\ source' = finish(writer).body
    /\ pc' = "closed"
    /\ UNCHANGED <<overflow_checks, writer, pushed>>
    /\ UNCHANGED reader_vars
    /\ UNCHANGED codec_vars

(***************************************************************************)
(* reader.rs: ArchiveReader.                                               *)
(***************************************************************************)
\* ArchiveReader::new with the result r of Archive::read
ArchiveReader_new(pw, flt, r) ==
    \* a header with a number of 2^24 or more is not opened
    /\ r.st # "huge"
    /\ reader_password' = pw
    /\ source_fault' = flt
    /\ end_scan' = (signature_header.signature_ok
                    /\ signature_header.version_major = 0
                    /\ ~header_valid(signature_header))
    /\ IF r.st = "ok"
       THEN archive' = r.v /\ pc' = "ready" /\ outcome' = NoOutcome
       ELSE archive' = ArchiveDefault /\ pc' = "done" /\ outcome' = Failed(r)

\* the caller opens the file; the source may start to fail once the archive is open
Open ==
    /\ pc = "closed"
    /\ \E pw \in Passwords, flt \in BOOLEAN :
         ArchiveReader_new(pw, flt, Archive_read(signature_header, source, pw))
    /\ UNCHANGED <<overflow_checks, writer, pushed, signature_header, source, current_block,
                   file_index, block_reader, calls, all_true>>
    /\ UNCHANGED codec_vars

file_vars == <<overflow_checks, writer, pushed, signature_header, source, reader_password,
               source_fault, archive, end_scan>>

\* ArchiveReader::for_each_entries is called
ForEachEntries ==
    /\ pc = "ready"
    /\ pc' = "blocks"
    /\ current_block' = 0
    /\ UNCHANGED <<file_index, block_reader, calls, all_true, outcome>>
    /\ UNCHANGED file_vars
    /\ UNCHANGED codec_vars

\* BlockDecoder::for_each_entries up to its loop: the decode stack of the block
OpenBlock ==
    /\ pc = "blocks"
    /\ current_block < Len(archive.blocks)
    /\ LET r == build_decode_stack(archive, current_block, reader_password, source,
                                   source_fault)
       IN IF r.st = "ok"
          THEN /\ pc' = "entries"
               /\ block_reader' = r.v
               /\ file_index' = archive.stream_map.block_first_file_index[current_block + 1]
               /\ UNCHANGED outcome
          ELSE /\ pc' = "done"
               /\ outcome' = Failed(r)
               /\ UNCHANGED <<block_reader, file_index>>
    /\ UNCHANGED <<current_block, calls, all_true>>
    /\ UNCHANGED file_vars
    /\ UNCHANGED codec_vars

\* the end of the loop of a block: the next block
CloseBlock ==
    /\ pc = "entries"
    /\ file_index >= archive.stream_map.block_first_file_index[current_block + 1]
                     + archive.blocks[current_block + 1].num_unpack_sub_streams
    /\ pc' = "blocks"
    /\ current_block' = current_block + 1
    /\ UNCHANGED <<file_index, block_reader, calls, all_true, outcome>>
    /\ UNCHANGED file_vars
    /\ UNCHANGED codec_vars

\* one turn of the loop of BlockDecoder::for_each_entries: the callback reads
\* its reader to the end and answers cont
DeliverEntry ==
    /\ pc = "entries"
    /\ file_index < archive.stream_map.block_first_file_index[current_block + 1]
                    + archive.blocks[current_block + 1].num_unpack_sub_streams
    /\ IF file_index >= Len(archive.files)
       THEN /\ pc' = "done"
            /\ outcome' = Returned("panic", Error("index"), <<>>)
            /\ UNCHANGED <<current_block, file_index, block_reader, calls, all_true>>
       ELSE LET file == archive.files[file_index + 1]
                r == entry_read_to_end(block_reader, file)
            IN IF file.has_stream /\ file.size > 0
               THEN IF r.st # "ok"
                    THEN /\ pc' = "done"
                         /\ outcome' = Returned("err",
                                maybe_bad_password(Error_io(r.e),
                                                   reader_password # NoPassword), <<>>)
                         /\ calls' = Append(calls, [block |-> current_block, file_index |-> file_index,
                                reader |-> "bounded", limit |-> file.size,
                                crc_checked |-> file.has_crc, data |-> <<>>, st |-> r.e])
                         /\ UNCHANGED <<current_block, file_index, block_reader, all_true>>
                    ELSE \E cont \in BOOLEAN :
                         /\ calls' = Append(calls, [block |-> current_block, file_index |-> file_index,
                                reader |-> "bounded", limit |-> file.size,
                                crc_checked |-> file.has_crc, data |-> r.v[1], st |-> "ok"])
                         /\ block_reader' = r.v[2]
                         /\ all_true' = (all_true /\ cont)
                         /\ file_index' = file_index + 1
                         \* Ok(false) of the BlockDecoder is dropped by the caller
                         /\ pc' = IF cont THEN "entries" ELSE "blocks"
                         /\ current_block' = IF cont THEN current_block ELSE current_block + 1
                         /\ UNCHANGED outcome
               ELSE \E cont \in BOOLEAN :
                    /\ calls' = Append(calls, [block |-> current_block, file_index |-> file_index,
                           reader |-> "empty", limit |-> 0,
                           crc_checked |-> FALSE, data |-> <<>>, st |-> "ok"])
                    /\ all_true' = (all_true /\ cont)
                    /\ file_index' = file_index + 1
                    /\ pc' = IF cont THEN "entries" ELSE "blocks"
                    /\ current_block' = IF cont THEN current_block ELSE current_block + 1
                    /\ UNCHANGED <<block_reader, outcome>>
    /\ UNCHANGED file_vars
    /\ UNCHANGED codec_vars

\* the loop over the blocks has ended: "decode empty files"
BlocksDone ==
    /\ pc = "blocks"
    /\ current_block >= Len(archive.blocks)
    /\ pc' = "empties"
    /\ file_index' = 0
    /\ UNCHANGED <<current_block, block_reader, calls, all_true, outcome>>
    /\ UNCHANGED file_vars
    /\ UNCHANGED codec_vars

\* the second loop of ArchiveReader::for_each_entries on a file without a block
DeliverEmpty ==
    /\ pc = "empties"
    /\ file_index < Len(archive.files)
    /\ ~archive.stream_map.file_block_index[file_index + 1].some
    /\ \E cont \in BOOLEAN :
         /\ calls' = Append(calls, [block |-> -1, file_index |-> file_index, reader |-> "empty",
                                    limit |-> 0, crc_checked |-> FALSE, data |-> <<>>,
                                    st |-> "ok"])
         /\ all_true' = (all_true /\ cont)
         /\ IF cont
            THEN file_index' = file_index + 1 /\ UNCHANGED <<pc, outcome>>
            ELSE /\ pc' = "done"
                 /\ outcome' = Returned("ok", Error(""), <<>>)
                 /\ UNCHANGED file_index
    /\ UNCHANGED <<current_block, block_reader>>
    /\ UNCHANGED file_vars
    /\ UNCHANGED codec_vars

\* the second loop on a file that has a block
SkipEntry ==
    /\ pc = "empties"
    /\ file_index < Len(archive.files)
    /\ archive.stream_map.file_block_index[file_index + 1].some
    /\ file_index' = file_index + 1
    /\ UNCHANGED <<pc, current_block, block_reader, calls, all_true, outcome>>
    /\ UNCHANGED file_vars
    /\ UNCHANGED codec_vars

\* ArchiveReader::for_each_entries returns Ok(())
ForEachReturn ==
    /\ pc = "empties"
    /\ file_index >= Len(archive.files)
    /\ pc' = "done"
    /\ outcome' = Returned("ok", Error(""), <<>>)
    /\ UNCHANGED <<current_block, file_index, block_reader, calls, all_true>>
    /\ UNCHANGED file_vars
    /\ UNCHANGED codec_vars

\* the names a caller asks read_file for: those of the archive and one more
AskedNames == {archive.files[i].name : i \in 1..Len(archive.files)} \cup {<<96>>}

\* ArchiveReader::read_file; file_index keeps the index the name resolves to
ReadFile ==
    /\ pc = "ready"
    /\ \E name \in AskedNames :
         /\ outcome' = read_file(archive, name, reader_password, source, source_fault)
         /\ file_index' = index_get(archive, name)
    /\ pc' = "read"
    /\ UNCHANGED <<current_block, block_reader, calls, all_true>>
    /\ UNCHANGED file_vars
    /\ UNCHANGED codec_vars

NextWriter ==
    \/ PushArchiveEntry
    \/ PushArchiveEntries
    \/ Finish
    \/ Open
    \/ ForEachEntries
    \/ OpenBlock
    \/ DeliverEntry
    \/ CloseBlock
    \/ BlocksDone
    \/ DeliverEmpty
    \/ SkipEntry
    \/ ForEachReturn
    \/ ReadFile

\* an archive is written, finished, opened and read
SpecWriter == InitWriter /\ [][NextWriter]_vars

(***************************************************************************)
(* The writer with its header encoding: the caller may switch the          *)
(* encryption of the header, and finish runs the LZMA stage, which emits   *)
(* one byte, half as many bytes as the raw header has, or as many.         *)
(***************************************************************************)
\* the lengths of the LZMA stream for a raw header of size bytes
LzmaSizes(size) == {1, (size + 1) \div 2, size}

SetEncryptHeader ==
    /\ pc = "writing"
    /\ \E enabled \in BOOLEAN : writer' = set_encrypt_header(writer, enabled)
    /\ UNCHANGED <<overflow_checks, pushed, signature_header, source, pc>>
    /\ UNCHANGED reader_vars
    /\ UNCHANGED codec_vars

FinishEncoded ==
    /\ pc = "writing"
    /\ \E n \in LzmaSizes(Len(write_header(writer.files, writer.pack_info,
                                             writer.unpack_info))) :
         LET f == finish_from(writer, write_encoded_header_from(writer, [k \in 1..n |-> 0]))
         IN /\ signature_header' = f.sig
            /\ source' = f.body
    /\ pc' = "closed"
    /\ UNCHANGED <<overflow_checks, writer, pushed>>
    /\ UNCHANGED reader_vars
    /\ UNCHANGED codec_vars

NextHeader ==
    \/ PushArchiveEntry
    \/ PushArchiveEntries
    \/ SetEncryptHeader
    \/ FinishEncoded

\* entries are pushed and the archive is finished, with the header encoded
SpecHeader == InitWriter /\ [][NextHeader]_vars

(***************************************************************************)
(* A caller whose callback reads as much of its reader as it likes: one    *)
(* turn of the loop of BlockDecoder::for_each_entries where the callback   *)
(* asks for asked bytes and answers cont.  The call keeps the block reader *)
(* the BoundedReader was made over.                                        *)
(***************************************************************************)
EachReads ==
    /\ pc = "entries"
    /\ file_index < archive.stream_map.block_first_file_index[current_block + 1]
                    + archive.blocks[current_block + 1].num_unpack_sub_streams
    /\ IF file_index >= Len(archive.files)
       THEN /\ pc' = "done"
            /\ outcome' = Returned("panic", Error("index"), <<>>)
            /\ UNCHANGED <<current_block, file_index, block_reader, calls, all_true>>
       ELSE LET file == archive.files[file_index + 1]
            IN IF file.has_stream /\ file.size > 0
               THEN \E asked \in 0..file.size :
                    LET r == entry_read(block_reader, file, asked)
                    IN IF r.st # "ok"
                       THEN /\ pc' = "done"
                            /\ outcome' = Returned("err",
                                   maybe_bad_password(Error_io(r.e),
                                                      reader_password # NoPassword), <<>>)
                            /\ calls' = Append(calls, [block |-> current_block,
                                   file_index |-> file_index, reader |-> "bounded",
                                   limit |-> file.size, asked |-> asked,
                                   over |-> block_reader, data |-> <<>>, st |-> r.e])
                            /\ UNCHANGED <<current_block, file_index, block_reader, all_true>>
                       ELSE \E cont \in BOOLEAN :
                            /\ calls' = Append(calls, [block |-> current_block,
                                   file_index |-> file_index, reader |-> "bounded",
                                   limit |-> file.size, asked |-> asked,
                                   over |-> block_reader, data |-> r.v[1], st |-> "ok"])
                            /\ block_reader' = r.v[2]
                            /\ all_true' = (all_true /\ cont)
                            /\ file_index' = file_index + 1
                            /\ pc' = IF cont THEN "entries" ELSE "blocks"
                            /\ current_block' = IF cont THEN current_block ELSE current_block + 1
                            /\ UNCHANGED outcome
               ELSE \E cont \in BOOLEAN :
                    /\ calls' = Append(calls, [block |-> current_block, file_index |-> file_index,
                           reader |-> "empty", limit |-> 0, asked |-> 0,
                           over |-> NoReader, data |-> <<>>, st |-> "ok"])
                    /\ all_true' = (all_true /\ cont)
                    /\ file_index' = file_index + 1
                    /\ pc' = IF cont THEN "entries" ELSE "blocks"
                    /\ current_block' = IF cont THEN current_block ELSE current_block + 1
                    /\ UNCHANGED <<block_reader, outcome>>
    /\ UNCHANGED file_vars
    /\ UNCHANGED codec_vars

NextEach ==
    \/ PushArchiveEntry
    \/ PushArchiveEntries
    \/ Finish
    \/ Open
    \/ ForEachEntries
    \/ OpenBlock
    \/ EachReads
    \/ CloseBlock
    \/ BlocksDone
    \/ DeliverEmpty
    \/ SkipEntry
    \/ ForEachReturn

\* an archive is written, finished, opened and walked by a callback that
\* reads any part of each entry
SpecEach == InitWriter /\ [][NextEach]_vars

(***************************************************************************)
(* Archives that did not come out of this writer intact.  A hostile or     *)
(* damaged file is one of a few written archives with one change: a byte   *)
(* of the header replaced or the header cut short (the checksums of the    *)
(* start header made to fit again), a byte of the packed streams replaced, *)
(* or the start header CRC or the start header slot zeroed.                *)
(***************************************************************************)
\* a coder that names LZMA and carries one property byte
MethodLzmaShort == [id |-> ID_LZMA, props |-> <<93>>]

\* the layout other 7z writers give a solid block: a directory listed
\* between the two files of the block
ForeignSolid ==
    LET w == push_archive_entries(ArchiveWriter_new(<<MethodCopy>>),
                 <<new_file(EntryName(0)), new_file(EntryName(2))>>, <<<<1>>, <<2, 3>>>>)
    IN [w EXCEPT !.files = <<w.files[1],
                             new_directory(EntryName(1)),
                             w.files[2]>>]

SeedWriters ==
    { push_archive_entry(
          push_archive_entry(ArchiveWriter_new(<<MethodCopy>>), new_file(EntryName(0)),
                             <<<<1>>>>),
          new_directory(EntryName(1)), <<>>),
      push_archive_entries(ArchiveWriter_new(<<MethodAes, MethodCopy>>),
          <<new_file(EntryName(0)), new_file(EntryName(1))>>, <<<<1>>, <<2, 3>>>>),
      push_archive_entry(ArchiveWriter_new(<<MethodCopy, MethodCopy, MethodCopy>>),
          new_file(EntryName(0)), <<<<2, 3>>>>),
      push_archive_entry(ArchiveWriter_new(<<MethodLzmaShort>>), new_file(EntryName(0)),
                         <<<<1>>>>),
      ForeignSolid }

\* the values a replaced byte takes
DamageBytes == {0, 1, 2, 3, 5, 9, 64, 129}

\* the file whose header is h, with the start header made to fit
WithHeader(f, h) ==
    LET off == f.sig.start_header.next_header_offset
        start_header == [next_header_offset |-> off, next_header_size |-> Len(h),
                         next_header_crc |-> Crc32(h)]
    IN [sig |-> [f.sig EXCEPT !.start_header = start_header,
                              !.start_header_crc = Crc32(StartHeaderBytes(start_header))],
        body |-> SubSeq(f.body, 1, off) \o h]

HeaderOf(f) ==
    SubSeq(f.body, f.sig.start_header.next_header_offset + 1, Len(f.body))

ZeroStartHeader == [next_header_offset |-> 0, next_header_size |-> 0, next_header_crc |-> 0]

DamagedFiles(f) ==
    {f}
    \cup {WithHeader(f, [HeaderOf(f) EXCEPT ![k] = b]) :
            k \in 1..Len(HeaderOf(f)), b \in DamageBytes}
    \cup {WithHeader(f, SubSeq(HeaderOf(f), 1, n)) : n \in 0..(Len(HeaderOf(f)) - 1)}
    \cup {[f EXCEPT !.body[k] = b] :
            k \in 1..f.sig.start_header.next_header_offset, b \in DamageBytes}
    \cup {[f EXCEPT !.sig.start_header_crc = 0],
          [f EXCEPT !.sig.start_header = ZeroStartHeader],
          [f EXCEPT !.sig.start_header = ZeroStartHeader,
                    !.sig.start_header_crc = Crc32(StartHeaderBytes(ZeroStartHeader))],
          [f EXCEPT !.sig.start_header = ZeroStartHeader, !.sig.start_header_crc = 0],
          [f EXCEPT !.sig.signature_ok = FALSE],
          [f EXCEPT !.sig.version_major = 1]}

InitReader ==
    /\ overflow_checks \in BOOLEAN
    /\ \E w \in SeedWriters :
         /\ writer = w
         /\ signature_header = finish(w).sig
         /\ source = finish(w).body
    /\ pushed = <<>>
    /\ pc = "stored"
    /\ ReaderIdle
    /\ CodecsIdle

\* the stored file reaches the reader with at most one change
Damage ==
    /\ pc = "stored"
    /\ \E f \in DamagedFiles([sig |-> signature_header, body |-> source]) :
         /\ signature_header' = f.sig
         /\ source' = f.body
    /\ pc' = "closed"
    /\ UNCHANGED <<overflow_checks, writer, pushed>>
    /\ UNCHANGED reader_vars
    /\ UNCHANGED codec_vars

NextReader ==
    \/ Damage
    \/ Open
    \/ ForEachEntries
    \/ OpenBlock
    \/ DeliverEntry
    \/ CloseBlock
    \/ BlocksDone
    \/ DeliverEmpty
    \/ SkipEntry
    \/ ForEachReturn
    \/ ReadFile

\* a file of unknown provenance is opened and read
SpecReader == InitReader /\ [][NextReader]_vars

(***************************************************************************)
(* The delta coder on its own: a DeltaWriter configured by the caller, the  *)
(* coder property stored in the archive, and the DeltaReader built from it. *)
(***************************************************************************)
MaxDeltaLen == 300

MaxShortLen == 3

LongChunkLen == 200

\* the distances the caller asks for
AskedDistances == {0, 1, 2, 3, 255, 256, 300}

\* the buffers the caller writes: short ones at the start of the data, and one
\* that is most of a history while the data is below MaxDeltaLen
DeltaChunks(written) ==
    (IF written < MaxShortLen THEN {<<0>>, <<255, 1>>} ELSE {})
    \cup (IF written < MaxDeltaLen THEN {[i \in 1..LongChunkLen |-> (i * 37 + 11) % 256]} ELSE {})

\* the sizes of the reads from the DeltaReader
ReadSizes(available) == {3, available}

\* no archive is written or read
ArchiveIdle ==
    /\ overflow_checks = TRUE
    /\ writer = ArchiveWriter_new(<<MethodCopy>>)
    /\ pushed = <<>>
    /\ signature_header = NoSignatureHeader
    /\ source = <<>>
    /\ pc = "idle"
    /\ ReaderIdle

\* add_encoder builds the DeltaWriter from the options, get_options_as_properties
\* stores the property, add_decoder builds the DeltaReader from the property
InitDelta ==
    /\ ArchiveIdle
    /\ Ppmd7Idle
    /\ EncoderIdle
    /\ PpmdIdle
    /\ PackIdle
    /\ \E distance \in AskedDistances : delta_options = DeltaOptions_from_distance(distance)
    /\ delta_properties = get_options_as_properties_delta(delta_options)
    /\ delta_writer = Delta_new(delta_options)
    /\ delta_reader = Delta_new(add_decoder_delta_distance(delta_properties))
    /\ delta_plain = <<>>
    /\ delta_packed = <<>>
    /\ delta_unpacked = <<>>

\* DeltaWriter::write on an inner writer that takes the whole buffer
DeltaWriter_write ==
    /\ pc = "idle"
    /\ \E buf \in DeltaChunks(Len(delta_plain)) :
         /\ delta_writer' = Delta_encode(delta_writer, buf).delta
         /\ delta_packed' = delta_packed \o Delta_encode(delta_writer, buf).buf
         /\ delta_plain' = delta_plain \o buf
    /\ UNCHANGED <<delta_options, delta_properties, delta_reader, delta_unpacked>>
    /\ UNCHANGED <<archive_vars, ppmd7_vars, encoder_vars, ppmd_vars, pack_vars>>

\* DeltaReader::read: the inner reader hands over n of the bytes it holds
DeltaReader_read ==
    /\ pc = "idle"
    /\ delta_packed # <<>>
    /\ \E n \in ReadSizes(Len(delta_packed)) :
         /\ n <= Len(delta_packed)
         /\ delta_reader' = Delta_decode(delta_reader, SubSeq(delta_packed, 1, n)).delta
         /\ delta_unpacked' = delta_unpacked \o Delta_decode(delta_reader, SubSeq(delta_packed, 1, n)).buf
         /\ delta_packed' = SubSeq(delta_packed, n + 1, Len(delta_packed))
    /\ UNCHANGED <<delta_options, delta_properties, delta_writer, delta_plain>>
    /\ UNCHANGED <<archive_vars, ppmd7_vars, encoder_vars, ppmd_vars, pack_vars>>

NextDelta ==
    \/ DeltaWriter_write
    \/ DeltaReader_read

\* bytes go through a DeltaWriter and the DeltaReader of the stored property
SpecDelta == InitDelta /\ [][NextDelta]_vars

(***************************************************************************)
(* The DeltaWriter over an inner writer that may take only a part of the   *)
(* buffer it is handed.  delta_plain holds the bytes reported as written,  *)
(* delta_packed the bytes the inner writer took.                           *)
(***************************************************************************)
MaxPartLen == 4

\* the buffers the caller writes; after a short write it is free to write the rest
PartChunks == {<<1>>, <<255, 1>>, <<7, 0, 9>>}

\* DeltaWriter::write: the inner writer takes n bytes of the encoded buffer
DeltaWriter_write_part ==
    /\ pc = "idle"
    /\ Len(delta_plain) < MaxPartLen
    /\ \E buf \in PartChunks :
         \E n \in 1..Len(buf) :
            /\ delta_writer' = Delta_encode(delta_writer, buf).delta
            /\ delta_packed' = delta_packed \o SubSeq(Delta_encode(delta_writer, buf).buf, 1, n)
            /\ delta_plain' = delta_plain \o SubSeq(buf, 1, n)
    /\ UNCHANGED <<delta_options, delta_properties, delta_reader, delta_unpacked>>
    /\ UNCHANGED <<archive_vars, ppmd7_vars, encoder_vars, ppmd_vars, pack_vars>>

NextPart ==
    \/ DeltaWriter_write_part

\* bytes are written to a DeltaWriter whose inner writer makes short writes
SpecPart == InitDelta /\ [][NextPart]_vars

(***************************************************************************)
(* The chain of encoders on its own, driven as push_archive_entry drives   *)
(* it: data writes, one flush, one empty write.                            *)
(***************************************************************************)
MaxChain == 2

MaxEncoderData == 40

EncoderKinds == {"COPY", "DELTA", "LZMA2", "BROTLI", "AES"}

\* the content methods the caller configures: chains of one to MaxChain encoders
EncoderChains == UNION {[1..n -> EncoderKinds] : n \in 1..MaxChain}

\* the sizes of the buffers the caller writes
WriteSizes == {1, 15, 16, 17}

InitEncoder ==
    /\ ArchiveIdle
    /\ Ppmd7Idle
    /\ DeltaIdle
    /\ PpmdIdle
    /\ PackIdle
    /\ \E methods \in EncoderChains : encoder = create_writer(methods)
    /\ encoder_written = 0
    /\ encoder_pc = "data"

\* w.write_all(&buf[..n]) on the outermost encoder
EncoderWriteData ==
    /\ encoder_pc = "data"
    /\ \E n \in WriteSizes :
         /\ encoder_written + n <= MaxEncoderData
         /\ encoder' = Encoder_write(encoder, Len(encoder.chain), n)
         /\ encoder_written' = encoder_written + n
    /\ UNCHANGED <<encoder_pc, archive_vars, ppmd7_vars, delta_vars, ppmd_vars, pack_vars>>

\* w.flush() after the data
EncoderFlush ==
    /\ encoder_pc = "data"
    /\ encoder' = Encoder_flush(encoder, Len(encoder.chain))
    /\ encoder_pc' = "flushed"
    /\ UNCHANGED <<encoder_written, archive_vars, ppmd7_vars, delta_vars, ppmd_vars, pack_vars>>

\* w.write(&[]) after the flush
EncoderWriteEmpty ==
    /\ encoder_pc = "flushed"
    /\ encoder' = Encoder_write(encoder, Len(encoder.chain), 0)
    /\ encoder_pc' = "finished"
    /\ UNCHANGED <<encoder_written, archive_vars, ppmd7_vars, delta_vars, ppmd_vars, pack_vars>>

NextEncoder ==
    \/ EncoderWriteData
    \/ EncoderFlush
    \/ EncoderWriteEmpty

\* data goes through a chain of encoders that is then flushed and finished
SpecEncoder == InitEncoder /\ [][NextEncoder]_vars

(***************************************************************************)
(* A caller that goes on after the empty write: one more flush or one more *)
(* empty write on the finished chain.                                      *)
(***************************************************************************)
\* w.flush() on the finished chain
EncoderFlushFinished ==
    /\ encoder_pc = "finished"
    /\ encoder' = Encoder_flush(encoder, Len(encoder.chain))
    /\ encoder_pc' = "again"
    /\ UNCHANGED <<encoder_written, archive_vars, ppmd7_vars, delta_vars, ppmd_vars, pack_vars>>

\* w.write(&[]) on the finished chain
EncoderWriteEmptyFinished ==
    /\ encoder_pc = "finished"
    /\ encoder' = Encoder_write(encoder, Len(encoder.chain), 0)
    /\ encoder_pc' = "again"
    /\ UNCHANGED <<encoder_written, archive_vars, ppmd7_vars, delta_vars, ppmd_vars, pack_vars>>

NextFinished ==
    \/ EncoderWriteData
    \/ EncoderFlush
    \/ EncoderWriteEmpty
    \/ EncoderFlushFinished
    \/ EncoderWriteEmptyFinished

\* a chain of encoders is used on after it was finished
SpecFinished == InitEncoder /\ [][NextFinished]_vars

(***************************************************************************)
(* The PPMd7 decoder on its own, over a reader that may fail.              *)
(***************************************************************************)
MaxPpmdData == 5

MaxPpmdBuf == 2

\* what decoding one symbol asks of the stream and gives
SymbolSteps == [norm : 0..2, sym : {PPMD7_SYM_ERROR, PPMD7_SYM_END, 65}]

InitPpmd ==
    /\ ArchiveIdle
    /\ Ppmd7Idle
    /\ DeltaIdle
    /\ EncoderIdle
    /\ PackIdle
    /\ \E left \in 0..MaxPpmdData, fail_on \in 0..3 : ppmd = Ppmd7Decoder_new(left, fail_on)
    /\ ppmd_outcome = [st |-> "none", n |-> 0, raised |-> 0]

\* the caller reads from the decoder into a buffer of up to MaxPpmdBuf bytes
Ppmd7DecoderRead ==
    /\ ppmd_outcome.st # "InvalidData"
    /\ \E n \in 0..MaxPpmdBuf :
         \E script \in [1..n -> SymbolSteps], code_zero \in BOOLEAN :
            /\ ppmd' = Ppmd7Decoder_read(ppmd, script, code_zero).ppmd
            /\ ppmd_outcome' =
                 [st |-> Ppmd7Decoder_read(ppmd, script, code_zero).st,
                  n |-> Ppmd7Decoder_read(ppmd, script, code_zero).n,
                  raised |-> Ppmd7Decoder_read(ppmd, script, code_zero).ppmd.reader.raised]
    /\ UNCHANGED <<archive_vars, ppmd7_vars, delta_vars, encoder_vars, pack_vars>>

NextPpmd ==
    \/ Ppmd7DecoderRead

\* a caller reads from a PPMd7 decoder until it fails
SpecPpmd == InitPpmd /\ [][NextPpmd]_vars

(***************************************************************************)
(* The packed streams of one block read through their sub-readers in any   *)
(* order.                                                                  *)
(***************************************************************************)
MaxPackStreams == 2

MaxPackSize == 3

MaxPackPos == 1

\* the bytes of the source after the packed streams
TrailingBytes == 2

InitPack ==
    /\ ArchiveIdle
    /\ Ppmd7Idle
    /\ DeltaIdle
    /\ EncoderIdle
    /\ PpmdIdle
    /\ \E num \in 2..MaxPackStreams, pack_pos \in 0..MaxPackPos :
         \E pack_sizes \in [1..num -> 0..MaxPackSize] :
            /\ pack_readers = pack_stream_readers(SIGNATURE_HEADER_SIZE + pack_pos, pack_sizes)
            /\ shared_source = [len |-> SIGNATURE_HEADER_SIZE + pack_pos + SeqSum(pack_sizes)
                                        + TrailingBytes,
                                pos |-> SIGNATURE_HEADER_SIZE + pack_pos]
    /\ pack_reads = [last |-> 0, switches |-> 0]

\* a decoder of the block reads from its input i into a buffer of n bytes
PackReaderRead ==
    /\ pack_readers # <<>>
    /\ \E i \in 1..Len(pack_readers), n \in 1..MaxPackSize, short \in 0..1 :
         /\ pack_readers[i].cur < pack_readers[i].bounds[2]
         /\ pack_readers' = [pack_readers EXCEPT
                               ![i] = SeekableBoundedReader_read(@, shared_source, n, short).reader]
         /\ shared_source' = SeekableBoundedReader_read(pack_readers[i], shared_source, n, short).src
         /\ pack_reads' = [last |-> i,
                           switches |-> pack_reads.switches
                                        + (IF pack_reads.last \notin {0, i} THEN 1 ELSE 0)]
    /\ UNCHANGED <<archive_vars, ppmd7_vars, delta_vars, encoder_vars, ppmd_vars>>

\* a read from an input that has reached its bound: Ok(0), nothing moves
PackReaderReadAtEnd ==
    /\ \E i \in 1..Len(pack_readers), n \in 1..MaxPackSize :
         /\ pack_readers[i].cur >= pack_readers[i].bounds[2]
         /\ pack_readers' = [pack_readers EXCEPT
                               ![i] = SeekableBoundedReader_read(@, shared_source, n, 0).reader]
         /\ shared_source' = SeekableBoundedReader_read(pack_readers[i], shared_source, n, 0).src
         /\ pack_reads' = [pack_reads EXCEPT !.last = i]
    /\ UNCHANGED <<archive_vars, ppmd7_vars, delta_vars, encoder_vars, ppmd_vars>>

NextPack ==
    \/ PackReaderRead
    \/ PackReaderReadAtEnd

\* the inputs of a block with several packed streams are read in any order
SpecPack == InitPack /\ [][NextPack]_vars

(***************************************************************************)
(* The range coder of a Pppmd7 that decodes or encodes symbols.  Which     *)
(* symbol is coded, and in which context, is the choice of the data: a     *)
(* symbol is coded in a context with several states by an interval of      *)
(* summ_freq, or in a binary context by one bit against a cell of          *)
(* bin_summ, and every escape goes round the loop over the suffix          *)
(* contexts once.                                                          *)
(***************************************************************************)
MaxRcSteps == 5

K_INIT_BIN_ESC == <<15581, 7999, 22975, 18675, 25761, 23228, 26162, 24657>>

\* restart_model: bin_summ[i][k + m] for i in 0..127 and k in 0..7 (here from 1)
bin_summ_init(i, k) == PPMD_BIN_SCALE - (K_INIT_BIN_ESC[k] \div (i + 2))

\* where a cell ends that sees only escapes, and one that sees none
bin_summ_floor ==
    CHOOSE p \in 0..PPMD_BIN_SCALE :
        ppmd_update_prob_1(p) = p /\ ppmd_update_prob_1(p + 1) = p

bin_summ_ceiling ==
    CHOOSE p \in 1..PPMD_BIN_SCALE :
        /\ ppmd_update_prob_1(p) + 2 ^ PPMD_INT_BITS = p
        /\ ppmd_update_prob_1(p - 1) + 2 ^ PPMD_INT_BITS = p

\* the least and the greatest initial cell, and the two cells above
BinSummStart == {bin_summ_init(0, 7), bin_summ_init(127, 2), bin_summ_floor, bin_summ_ceiling}

\* summ_freq is a u16: a context of two states, the root context after
\* restart_model, and the widest value of the field
SummFreqs == {30, 257, 65535}

\* the first and the last unit of the total, and all of it but the last unit
Intervals ==
    UNION {{[total |-> t, start |-> 0, size |-> 1],
            [total |-> t, start |-> t - 1, size |-> 1],
            [total |-> t, start |-> 0, size |-> t - 1]} : t \in SummFreqs}

\* the escape is the interval above the states of the context
EscapeIntervals == {iv \in Intervals : iv.start + iv.size = iv.total /\ iv.start > 0}

InitRange ==
    /\ ArchiveIdle
    /\ DeltaIdle
    /\ EncoderIdle
    /\ PpmdIdle
    /\ PackIdle
    /\ ModelIdle
    /\ rc = RangeCoder_new
    /\ \E coder \in {"decoder", "encoder"} :
         rc_pc = [coder |-> coder, at |-> "symbol", normalized |-> "none", steps |-> 0]
    /\ bin_summ \in BinSummStart

\* the position after a step of the coder
RcAt(at, normalized) ==
    [rc_pc EXCEPT !.at = at, !.normalized = normalized, !.steps = @ + 1]

RangeStep(coder, at) ==
    /\ pc = "idle"
    /\ rc_pc.coder = coder
    /\ rc_pc.at = at
    /\ rc_pc.steps < MaxRcSteps

\* decode_symbol in a context with several states: the symbol is one of the
\* states, or the count is beyond summ_freq, or it is the escape
DecodeSymbolStats ==
    /\ RangeStep("decoder", "symbol")
    /\ \E iv \in Intervals :
         \/ /\ rc' = RangeDecoder_decode_final(RangeDecoder_get_threshold(rc, iv.total),
                         iv.start, iv.size)
            /\ rc_pc' = RcAt("symbol", "remote")
         \/ /\ rc' = RangeDecoder_get_threshold(rc, iv.total)
            /\ rc_pc' = RcAt("error", "none")
         \/ /\ iv \in EscapeIntervals
            /\ rc' = RangeDecoder_decode(RangeDecoder_get_threshold(rc, iv.total),
                         iv.start, iv.size)
            /\ rc_pc' = RcAt("escape", "none")
    /\ UNCHANGED <<bin_summ, model_vars, archive_vars, delta_vars, encoder_vars, ppmd_vars,
                   pack_vars>>

\* decode_symbol in a binary context: bit 0 is the symbol, bit 1 the escape
DecodeSymbolBinary ==
    /\ RangeStep("decoder", "symbol")
    /\ \/ /\ bin_summ' = ppmd_update_prob_1(bin_summ) + 2 ^ PPMD_INT_BITS
          /\ rc' = RangeDecoder_decode_bit_0(rc, bit_bound(rc, bin_summ))
          /\ rc_pc' = RcAt("symbol", "one")
       \/ /\ bin_summ' = ppmd_update_prob_1(bin_summ)
          /\ rc' = RangeDecoder_decode_bit_1(rc, bit_bound(rc, bin_summ))
          /\ rc_pc' = RcAt("escape", "none")
    /\ UNCHANGED <<model_vars, archive_vars, delta_vars, encoder_vars, ppmd_vars, pack_vars>>

\* the head of the loop over the suffix contexts
DecodeNormalize ==
    /\ RangeStep("decoder", "escape")
    /\ rc' = RangeDecoder_normalize_remote(rc)
    /\ rc_pc' = RcAt("masked", "remote")
    /\ UNCHANGED <<bin_summ, model_vars, archive_vars, delta_vars, encoder_vars, ppmd_vars,
                   pack_vars>>

\* the body of the loop: no suffix is left, or the symbol is a state that
\* is not masked, or the count is beyond freq_sum, or it is the escape
DecodeMasked ==
    /\ RangeStep("decoder", "masked")
    /\ \/ /\ rc' = rc
          /\ rc_pc' = RcAt("end", "remote")
       \/ \E iv \in Intervals :
            \/ /\ rc' = RangeDecoder_decode_final(RangeDecoder_get_threshold(rc, iv.total),
                            iv.start, iv.size)
               /\ rc_pc' = RcAt("symbol", "remote")
            \/ /\ rc' = RangeDecoder_get_threshold(rc, iv.total)
               /\ rc_pc' = RcAt("error", "none")
            \/ /\ iv \in EscapeIntervals
               /\ rc' = RangeDecoder_decode(RangeDecoder_get_threshold(rc, iv.total),
                            iv.start, iv.size)
               /\ rc_pc' = RcAt("escape", "none")
    /\ UNCHANGED <<bin_summ, model_vars, archive_vars, delta_vars, encoder_vars, ppmd_vars,
                   pack_vars>>

\* encode_symbol in a context with several states: self.rc.range /= summ_freq,
\* then the symbol is one of the states, or it is not and the escape is coded
EncodeSymbolStats ==
    /\ RangeStep("encoder", "symbol")
    /\ \E iv \in Intervals :
         \/ /\ rc' = RangeEncoder_encode_final([rc EXCEPT !.range = U32_div(@, iv.total)],
                         iv.start, iv.size)
            /\ rc_pc' = RcAt("symbol", "remote")
         \/ /\ iv \in EscapeIntervals
            /\ rc' = RangeEncoder_encode([rc EXCEPT !.range = U32_div(@, iv.total)],
                         iv.start, iv.size)
            /\ rc_pc' = RcAt("escape", "none")
    /\ UNCHANGED <<bin_summ, model_vars, archive_vars, delta_vars, encoder_vars, ppmd_vars,
                   pack_vars>>

\* encode_symbol in a binary context
EncodeSymbolBinary ==
    /\ RangeStep("encoder", "symbol")
    /\ \/ /\ bin_summ' = ppmd_update_prob_1(bin_summ) + 2 ^ PPMD_INT_BITS
          /\ rc' = RangeEncoder_encode_bit_0(rc, bit_bound(rc, bin_summ))
          /\ rc_pc' = RcAt("symbol", "one")
       \/ /\ bin_summ' = ppmd_update_prob_1(bin_summ)
          /\ rc' = RangeEncoder_encode_bit_1(rc, bit_bound(rc, bin_summ))
          /\ rc_pc' = RcAt("escape", "none")
    /\ UNCHANGED <<model_vars, archive_vars, delta_vars, encoder_vars, ppmd_vars, pack_vars>>

\* the head of the loop over the suffix contexts
EncodeNormalize ==
    /\ RangeStep("encoder", "escape")
    /\ rc' = RangeEncoder_normalize_remote(rc)
    /\ rc_pc' = RcAt("masked", "remote")
    /\ UNCHANGED <<bin_summ, model_vars, archive_vars, delta_vars, encoder_vars, ppmd_vars,
                   pack_vars>>

\* the body of the loop: no suffix is left, or the symbol is a state of the
\* suffix context, or it is not and the escape is coded
EncodeMasked ==
    /\ RangeStep("encoder", "masked")
    /\ \/ /\ rc' = rc
          /\ rc_pc' = RcAt("end", "remote")
       \/ \E iv \in Intervals :
            \/ /\ rc' = RangeEncoder_encode_final([rc EXCEPT !.range = U32_div(@, iv.total)],
                            iv.start, iv.size)
               /\ rc_pc' = RcAt("symbol", "remote")
            \/ /\ iv \in EscapeIntervals
               /\ rc' = RangeEncoder_encode([rc EXCEPT !.range = U32_div(@, iv.total)],
                            iv.start, iv.size)
               /\ rc_pc' = RcAt("escape", "none")
    /\ UNCHANGED <<bin_summ, model_vars, archive_vars, delta_vars, encoder_vars, ppmd_vars,
                   pack_vars>>

NextRange ==
    \/ DecodeSymbolStats
    \/ DecodeSymbolBinary
    \/ DecodeNormalize
    \/ DecodeMasked
    \/ EncodeSymbolStats
    \/ EncodeSymbolBinary
    \/ EncodeNormalize
    \/ EncodeMasked

\* a Pppmd7 decodes or encodes a few symbols
SpecRange == InitRange /\ [][NextRange]_vars

(***************************************************************************)
(* The life of one Context of a Pppmd7: create_successors makes it with    *)
(* one state, update_model gives it a state for every symbol that was      *)
(* found in a context of lower order while it was max_context, and the     *)
(* symbols coded in it are counted by update_bin, update1_0, update1 and   *)
(* update2.  min_context is that Context, whatever the model names it at   *)
(* the moment.                                                             *)
(***************************************************************************)
MaxStats == 3

MaxModelSteps == 5

\* new_freq of create_successors: the least, and one that update_model
\* turns into MAX_FREQ - 4
NewFreqs == {1, 30}

\* order_fall when the symbol is found in min_context without an escape
OrderFalls == {0, 1}

\* num_stats of the context the symbol was found in, which has the symbol
\* that c has not
FoundNumStats(c) == {c.num_stats + 1, 256}

\* s0 of update_model: the escape freq and the other states of that context
PureEscapes == {1, 2000}

\* the freq of found_state after update2
FoundFreqs == {5, 40}

\* init_esc: the least and the greatest value of K_EXP_ESCAPE
InitEscapes == {2, 25}

\* a symbol the context has no state of
NewSymbol(c) ==
    CHOOSE b \in 1..(MaxStats + 1) :
        /\ \A i \in 1..Len(c.stats) : c.stats[i].symbol # b
        /\ \A a \in 1..(b - 1) : \E i \in 1..Len(c.stats) : c.stats[i].symbol = a

\* the states are in order of freq, the greatest first
Sorted(stats) == \A i \in 1..(Len(stats) - 1) : stats[i].freq >= stats[i + 1].freq

InitModel ==
    /\ ArchiveIdle
    /\ DeltaIdle
    /\ EncoderIdle
    /\ PpmdIdle
    /\ PackIdle
    /\ RangeIdle
    /\ \E freq \in NewFreqs : min_context = OneState(1, freq)
    /\ found_state = 1
    /\ model_pc = [op |-> "new", rescaled |-> FALSE, collapsed |-> FALSE,
                   sorted_before |-> TRUE, steps |-> 0]

\* the operation op has made r of min_context
ModelStep(op, r) ==
    /\ min_context' = r.context
    /\ found_state' = r.found
    /\ model_pc' = [op |-> op, rescaled |-> r.rescaled, collapsed |-> r.collapsed,
                    sorted_before |-> Sorted(min_context.stats),
                    steps |-> model_pc.steps + 1]
    /\ UNCHANGED <<range_vars, archive_vars, delta_vars, encoder_vars, ppmd_vars, pack_vars>>

ModelAt(several) ==
    /\ pc = "idle"
    /\ model_pc.op # "none"
    /\ model_pc.steps < MaxModelSteps
    /\ (min_context.num_stats # 1) = several

\* the symbol of the one state is coded in the context
UpdateBin ==
    /\ ModelAt(FALSE)
    /\ ModelStep("update_bin", update_bin(min_context))

\* the symbol of the first state is coded in the context
Update1_0 ==
    /\ ModelAt(TRUE)
    /\ \E order_fall \in OrderFalls :
         ModelStep("update1_0", update1_0(min_context, 1, order_fall))

\* the symbol of a later state is coded in the context
Update1 ==
    /\ ModelAt(TRUE)
    /\ \E s \in 2..min_context.num_stats, order_fall \in OrderFalls :
         ModelStep("update1", update1(min_context, s, order_fall))

\* the symbol of a state is coded in the context after an escape from a
\* context of higher order, each escape having added 1 to order_fall
Update2 ==
    /\ ModelAt(TRUE)
    /\ \E s \in 1..min_context.num_stats :
         ModelStep("update2", update2(min_context, s, 1))

\* a symbol is coded in the context above this one, its suffix
UpdateModelSuffix ==
    /\ pc = "idle"
    /\ model_pc.op # "none"
    /\ model_pc.steps < MaxModelSteps
    /\ \E s \in 1..min_context.num_stats :
         ModelStep("update_model_suffix", update_model_suffix(min_context, s))

\* a symbol the context has no state of is found in a context of lower order
UpdateModelAdd ==
    /\ pc = "idle"
    /\ model_pc.op # "none"
    /\ model_pc.steps < MaxModelSteps
    /\ min_context.num_stats < MaxStats
    /\ \E ns \in FoundNumStats(min_context), s0 \in PureEscapes, found_freq \in FoundFreqs,
          init_esc \in InitEscapes :
         ModelStep("update_model_add",
             update_model_add(min_context, NewSymbol(min_context), ns, s0, found_freq,
                              init_esc))

NextModel ==
    \/ UpdateBin
    \/ Update1_0
    \/ Update1
    \/ Update2
    \/ UpdateModelSuffix
    \/ UpdateModelAdd

\* a Context from its creation on
SpecModel == InitModel /\ [][NextModel]_vars

(***************************************************************************)
(* Properties.                                                             *)
(***************************************************************************)
\* the bytes the caller handed over for the i-th pushed entry
PushedContent(i) ==
    IF pushed[i].entry.is_directory \/ pushed[i].reader = <<>> THEN <<>>
    ELSE pushed[i].reader[1]

\* the reader was given the password the content methods of the writer need
RightPassword ==
    (\E k \in 1..Len(writer.content_methods) :
        writer.content_methods[k].id = ID_AES256SHA256) => reader_password = WriterKey

\* the written archive has been opened and every read of the source succeeds
ReadBack == pc \notin {"writing", "closed"} /\ RightPassword /\ ~source_fault

\* C1: every sequence of entries pushed through push_archive_entry and
\* push_archive_entries and then finished reads back as the same entries in
\* the same order, with identical contents and identical CRCs
C1_RoundTrip ==
    ReadBack =>
        /\ outcome.st \in {"none", "ok"}
        /\ Len(archive.files) = Len(pushed)
        /\ \A i \in 1..Len(pushed) :
             /\ i <= Len(archive.files)
             /\ archive.files[i].name = pushed[i].entry.name
             /\ archive.files[i].is_directory = pushed[i].entry.is_directory
             /\ archive.files[i].size = Len(PushedContent(i))
             /\ archive.files[i].has_crc => archive.files[i].crc = Crc32(PushedContent(i))
        /\ \A c \in 1..Len(calls) :
             /\ calls[c].file_index < Len(pushed)
             /\ calls[c].data = PushedContent(calls[c].file_index + 1)
        /\ (pc = "read" /\ file_index >= 0 /\ file_index < Len(pushed)) =>
               outcome.data = PushedContent(file_index + 1)

\* for_each_entries has returned Ok(()) and every callback answered true
ForEachCompleted == pc = "done" /\ outcome.st = "ok" /\ all_true

\* the calls of the callback for the file of index i
CallsOf(i) == {c \in 1..Len(calls) : calls[c].file_index = i}

\* C2: on a successfully parsed archive, for_each_entries with a callback
\* that always returns true calls it exactly once for every entry: with a
\* reader bounded to the size of the entry and checked against its CRC when
\* the entry has data, with an empty reader when it is empty
C2_EachEntryOnce ==
    ForEachCompleted =>
        \A i \in 0..(Len(archive.files) - 1) :
            /\ Cardinality(CallsOf(i)) = 1
            /\ \A c \in CallsOf(i) :
                 IF archive.files[i + 1].has_stream /\ archive.files[i + 1].size > 0
                 THEN /\ calls[c].reader = "bounded"
                      /\ calls[c].limit = archive.files[i + 1].size
                      /\ calls[c].crc_checked = archive.files[i + 1].has_crc
                 ELSE calls[c].reader = "empty"

\* C3: for_each_entries delivers the entries to the callback in archive
\* order, the order of files[], across all blocks
C3_ArchiveOrder ==
    \A c \in 1..(Len(calls) - 1) : calls[c].file_index < calls[c + 1].file_index

\* C3, as the reader of a written archive behaves: the entries that belong
\* to a block are delivered block after block and in archive order, and the
\* entries that belong to no block are delivered after all blocks, in
\* archive order among themselves
C3_BlocksThenEmpty ==
    \A c \in 1..(Len(calls) - 1) :
        /\ calls[c].block >= 0 /\ calls[c + 1].block >= 0 =>
              /\ calls[c].block <= calls[c + 1].block
              /\ calls[c].file_index < calls[c + 1].file_index
        /\ calls[c].block = -1 =>
              /\ calls[c + 1].block = -1
              /\ calls[c].file_index < calls[c + 1].file_index

\* a directory pushed before two files is delivered after both of them
C3_Witness ==
    /\ ForEachCompleted
    /\ Len(calls) = 3
    /\ calls[1].block = 0 /\ calls[2].block = 1 /\ calls[3].block = -1
    /\ calls[3].file_index = 0

\* C4: a CRC mismatch detected while an entry is extracted reaches the
\* caller as a checksum error, distinct from an I/O error, whatever the
\* password
C4_ChecksumDistinct ==
    (pc \in {"done", "read"} /\ outcome.st = "err" /\ outcome.err.inner = "checksum") =>
        outcome.err.kind = "ChecksumVerificationFailed"

\* the block the failed extraction was reading
ExtractedBlock ==
    IF pc = "read" THEN archive.stream_map.file_block_index[file_index + 1].v
    ELSE current_block

EncryptedBlock(b) ==
    /\ b < Len(archive.blocks)
    /\ \E k \in 1..Len(archive.blocks[b + 1].coders) :
          archive.blocks[b + 1].coders[k].id = ID_AES256SHA256

\* C5: with a non-empty password, an I/O error while an entry of an
\* encrypted stream is extracted is returned as MaybeBadPassword, by
\* for_each_entries and by read_file alike
C5_MaybeBadPassword ==
    (/\ pc \in {"done", "read"}
     /\ outcome.st = "err"
     /\ outcome.err.inner = "os"
     /\ reader_password # NoPassword
     /\ EncryptedBlock(ExtractedBlock)) =>
        outcome.err.kind = "MaybeBadPassword"

\* C6: parsing and extracting a malformed archive never panics
C6_NoPanic == outcome.st # "panic"

\* C7: in every archive the parser accepts, the num_unpack_sub_streams of
\* the blocks add up to the number of files with has_stream set
C7_SubStreamCount ==
    pc = "ready" =>
        SeqSum([b \in 1..Len(archive.blocks) |-> archive.blocks[b].num_unpack_sub_streams])
          = Cardinality({i \in 1..Len(archive.files) : archive.files[i].has_stream})

\* the output streams of a block that no bind pair takes
UnboundOutputs(block) ==
    {o \in 0..(block.total_output_streams - 1) : find_bind_pair_for_out_stream(block, o) = 0}

\* C8: in every block the parser accepts, exactly one output stream has no
\* outgoing bind pair
C8_OneUnboundOutput ==
    pc = "ready" =>
        \A b \in 1..Len(archive.blocks) :
            archive.blocks[b].total_output_streams >= 1 =>
                Cardinality(UnboundOutputs(archive.blocks[b])) = 1

\* C9: in every block the parser accepts, the walk over the coders from
\* the packed stream ends after finitely many steps, at the coder whose
\* output is not bound
C9_WalkEndsAtUnbound ==
    pc = "ready" =>
        \A b \in 1..Len(archive.blocks) :
            LET walk == ordered_coder_iter(archive.blocks[b])
            IN /\ ~walk.loop
               /\ walk.order # <<>>
               /\ find_bind_pair_for_out_stream(archive.blocks[b],
                                                 walk.order[Len(walk.order)]) = 0

\* Archive::read got past the signature and the version
ReadStartHeader ==
    /\ pc \notin {"writing", "stored", "closed"}
    /\ signature_header.signature_ok
    /\ signature_header.version_major = 0

\* the 20 bytes of the start header slot are all zero
SlotAllZero == \A k \in 1..20 : StartHeaderBytes(signature_header.start_header)[k] = 0

ValidHeaderAt(p) ==
    LET r == init_archive(source, end_start_header(source, p), reader_password, FALSE)
    IN r.st = "ok" /\ r.v.files # <<>>

ScannedRegion == SIGNATURE_HEADER_SIZE..(SIGNATURE_HEADER_SIZE + Len(source) - 2)

\* C11: once the end-of-file header scan is triggered, it locates a valid
\* header whenever one is present in the scanned region, whatever the other
\* bytes of the region are
C11_ScanLocatesHeader ==
    (end_scan /\ \E p \in ScannedRegion : ValidHeaderAt(p)) => archive.files # <<>>

\* C12: for every archive the writer produces, the substreams section holds
\* no per-file CRC for the blocks with one sub-stream (their block CRC is
\* always written) and one CRC of four bytes per sub-stream for every other block
C12_SubStreamCrcLayout ==
    \A k \in 1..Len(writer.unpack_info) :
        Len(write_substream_crcs(writer.unpack_info[k])) =
            IF writer.unpack_info[k].num_sub_unpack_streams = 1 THEN 0
            ELSE 4 * writer.unpack_info[k].num_sub_unpack_streams

\* C13: for every distance of 1 to 256 and every byte sequence, decoding the
\* delta-encoded bytes with the distance recovered from the stored property
\* byte gives the bytes back: what has been read from the DeltaReader is what
\* was written to the DeltaWriter, and all of it once every byte is read
C13_DeltaRoundTrip ==
    /\ delta_options \in 1..MAX_DISTANCE
    /\ delta_properties = <<(delta_options - 1) % 256>>
    /\ Len(delta_unpacked) <= Len(delta_plain)
    /\ delta_unpacked = SubSeq(delta_plain, 1, Len(delta_unpacked))
    /\ delta_packed = <<>> => delta_unpacked = delta_plain

\* the largest distance, with more bytes read back than one history holds,
\* after an encoding that changed the bytes
C13_Witness ==
    /\ delta_options = MAX_DISTANCE
    /\ Len(delta_unpacked) > MAX_DISTANCE
    /\ delta_packed = <<>>
    /\ \E i \in 1..Len(delta_plain) : delta_plain[i] # 0 /\ i > MAX_DISTANCE
    /\ delta_reader.distance = 0

\* read_file has been asked for the name of the pushed entry of index file_index
ReadFileOfPushed ==
    /\ pc = "read" /\ ReadBack
    /\ file_index >= 0 /\ file_index < Len(pushed)
    /\ ~pushed[file_index + 1].entry.is_directory

\* C14: read_file(name) returns exactly the content of the named entry, for
\* every non-directory entry name, from the archive whose entries went into
\* one solid block as from the archive that holds the same entries in blocks
\* of their own: the two reads return the same bytes
C14_ReadFileSolidOrNot ==
    ReadFileOfPushed =>
        /\ outcome.st = "ok"
        /\ outcome.data = PushedContent(file_index + 1)

\* read_file went through a solid block and skipped a non-empty entry to
\* return the non-empty content of a later one
C14_Witness ==
    /\ ReadFileOfPushed
    /\ archive.is_solid
    /\ file_index > 0
    /\ PushedContent(file_index) # <<>>
    /\ PushedContent(file_index + 1) # <<>>
    /\ PushedContent(file_index + 1) # PushedContent(file_index)
    /\ outcome.data = PushedContent(file_index + 1)

\* the number of entries with a stream before the entry of index i
StreamsBefore(i) == Cardinality({j \in 0..(i - 1) : archive.files[j + 1].has_stream})

\* the sub-streams of the blocks before block b
SubStreamsBefore(b) ==
    SeqSum([c \in 1..b |-> archive.blocks[c].num_unpack_sub_streams])

\* the blocks whose sub-streams include the stream of the entry of index i
ProducingBlocks(i) ==
    {b \in 0..(Len(archive.blocks) - 1) :
        /\ SubStreamsBefore(b) <= StreamsBefore(i)
        /\ StreamsBefore(i) < SubStreamsBefore(b + 1)}

\* C16: after loading any archive, file_block_index is absent for every
\* entry without a stream and names the producing block for every entry
\* with a stream
C16_FileBlockIndex ==
    \A i \in 0..(Len(archive.files) - 1) :
        /\ i < Len(archive.stream_map.file_block_index)
        /\ IF archive.files[i + 1].has_stream
           THEN /\ archive.stream_map.file_block_index[i + 1].some
                /\ archive.stream_map.file_block_index[i + 1].v \in ProducingBlocks(i)
           ELSE ~archive.stream_map.file_block_index[i + 1].some

\* C20: once the callback passed to for_each_entries has returned false, it
\* is not invoked again during that call, neither for entries of later
\* blocks nor for empty entries
C20_NoCallAfterFalse == [][~all_true => calls' = calls]_vars

\* the encoders that take an empty write as the request to finish
Finishes(kind) == kind \in {"LZMA2", "AES"}

\* C15: after the data writes, a flush and one final empty write to the
\* outermost encoder, every encoder of the chain has been finished, none
\* holds buffered bytes, and the empty write has gone through the whole
\* chain to the underlying output
C15_ChainFinished ==
    encoder_pc = "finished" =>
        /\ ~encoder.panic
        /\ \A k \in 1..Len(encoder.chain) :
             /\ Finishes(encoder.chain[k].kind) => encoder.chain[k].finished
             /\ encoder.chain[k].buffered = 0
        /\ encoder.out.empty_writes = 1

\* the outermost encoder is an AES encoder that has been finished
AesFinished ==
    /\ encoder_pc = "finished"
    /\ encoder.chain[Len(encoder.chain)].kind = "AES"
    /\ encoder.chain[Len(encoder.chain)].finished

\* C17: finishing an AES-256/SHA-256 encoder flushes exactly one 16-byte
\* padding block at the end of the stream, for every length of data written
C17_OnePaddingBlock ==
    AesFinished => encoder.chain[Len(encoder.chain)].flush_blocks = 1

\* C17, amended: finishing the encoder flushes one 16-byte block holding the
\* zero-padded rest of the data when the length of the data is not a multiple
\* of 16, and no block when it is; no AES encoder of a chain flushes more
\* than one
C17_PaddingWhenPartial ==
    /\ AesFinished =>
         /\ encoder.chain[Len(encoder.chain)].flush_blocks =
                (IF encoder_written % AES_BLOCK = 0 THEN 0 ELSE 1)
         /\ encoder.chain[Len(encoder.chain)].buffered = 0
    /\ \A k \in 1..Len(encoder.chain) :
         encoder.chain[k].kind = "AES" => encoder.chain[k].flush_blocks <= 1

\* an AES encoder finished after more than one block of data and a rest
C17_Witness ==
    /\ AesFinished
    /\ encoder_written > AES_BLOCK
    /\ encoder_written % AES_BLOCK # 0
    /\ encoder.chain[Len(encoder.chain)].flush_blocks = 1
    /\ encoder.out.bytes = (encoder_written \div AES_BLOCK + 1) * AES_BLOCK

\* C18: an I/O error raised by the underlying reader while the range decoder
\* is normalizing is propagated to the caller of the decoder's read: a read
\* during which the reader raised an error returns that error
C18_IoErrorPropagates ==
    ppmd_outcome.raised > 0 => ppmd_outcome.st = "io"

\* the bytes of the packed stream of the sub-reader r
PackedStream(r) == [j \in 1..(r.bounds[2] - r.bounds[1]) |-> SourceByte(r.bounds[1] + j - 1)]

\* C19: for every interleaving of reads across the bounded sub-readers that
\* share one source, each sub-reader yields exactly the bytes of its own
\* packed stream, in order: what it has yielded is the stream up to its
\* cursor, and the whole stream once the cursor is at its bound
C19_OwnPackedStream ==
    \A i \in 1..Len(pack_readers) :
        /\ pack_readers[i].cur = pack_readers[i].bounds[1] + Len(pack_readers[i].yielded)
        /\ pack_readers[i].cur <= pack_readers[i].bounds[2]
        /\ pack_readers[i].yielded =
               SubSeq(PackedStream(pack_readers[i]), 1, Len(pack_readers[i].yielded))

\* every stream read to its end with the reads changing reader more often
\* than there are readers, the first stream finished last
C19_Witness ==
    /\ Len(pack_readers) = MaxPackStreams
    /\ \A i \in 1..Len(pack_readers) :
         /\ pack_readers[i].bounds[2] - pack_readers[i].bounds[1] >= 2
         /\ pack_readers[i].yielded = PackedStream(pack_readers[i])
    /\ pack_reads.switches > MaxPackStreams
    /\ shared_source.pos = pack_readers[1].bounds[2]

(***************************************************************************)
(* C21: within a block, the reader handed to the callback for an entry     *)
(* yields that entry's bytes, however many bytes the callback read from    *)
(* the readers of the entries before it: a callback that reads its reader  *)
(* to the end gets what it would get over a block reader that stands at    *)
(* the end of the entries before.                                          *)
(***************************************************************************)
\* the unpacked bytes of block b that lie before file fi
BytesBefore(b, fi) ==
    SumTo([j \in 1..Len(archive.files) |->
             IF j - 1 >= archive.stream_map.block_first_file_index[b + 1]
                /\ j - 1 < fi /\ archive.files[j].has_stream
             THEN archive.files[j].size ELSE 0], Len(archive.files))

\* what reading the entry of call c to its end gives at the entry's own place
OwnBytes(c) ==
    entry_read_to_end([c.over EXCEPT !.pos = BytesBefore(c.block, c.file_index)],
                      archive.files[c.file_index + 1])

C21_OwnBytesWhateverWasRead ==
    \A k \in 1..Len(calls) :
        (calls[k].reader = "bounded" /\ calls[k].asked = calls[k].limit)
        => /\ calls[k].st = (IF OwnBytes(calls[k]).st = "ok" THEN "ok" ELSE OwnBytes(calls[k]).e)
           /\ calls[k].st = "ok" => calls[k].data = OwnBytes(calls[k]).v[1]

(***************************************************************************)
(* C22: when the decoded stream ends before the expected number of bytes   *)
(* has come, the CRC-verifying reader reports an error: an entry with a    *)
(* CRC that read_file returns, or that a callback has read to the end      *)
(* without an error, has all the bytes of its size.                        *)
(***************************************************************************)
C22_TruncatedIsError ==
    /\ (pc = "read" /\ outcome.st = "ok" /\ file_index >= 0
           /\ archive.files[file_index + 1].has_stream
           /\ archive.files[file_index + 1].has_crc)
        => Len(outcome.data) = archive.files[file_index + 1].size
    /\ \A k \in 1..Len(calls) :
           (calls[k].reader = "bounded" /\ calls[k].crc_checked /\ calls[k].st = "ok")
           => Len(calls[k].data) = calls[k].limit

(***************************************************************************)
(* C23: for every entry without a stream, the is_anti_item and the         *)
(* is_directory flags read back from a written archive are the flags the   *)
(* entry had when it was pushed to the writer.                             *)
(***************************************************************************)
C23_EmptyEntryFlags ==
    (ReadBack /\ Len(archive.files) = Len(pushed)) =>
        \A i \in 1..Len(pushed) :
            ~writer.files[i].has_stream
            => /\ archive.files[i].is_anti_item = pushed[i].entry.is_anti_item
               /\ archive.files[i].is_directory = pushed[i].entry.is_directory

(***************************************************************************)
(* C24: when header encryption is enabled and an AES method is among the   *)
(* content methods, the header that finish writes is the encoded one, so   *)
(* that the raw header with the entry names is not in the output, whatever *)
(* the size of the header.                                                 *)
(***************************************************************************)
\* the header at the end of the finished file
WrittenHeader == HeaderOf([sig |-> signature_header, body |-> source])

HeaderEncryptionAsked ==
    /\ writer.encrypt_header
    /\ \E k \in 1..Len(writer.content_methods) : writer.content_methods[k].id = ID_AES256SHA256

C24_HeaderEncrypted ==
    (pc = "closed" /\ HeaderEncryptionAsked /\ writer.files # <<>>)
    => /\ WrittenHeader[1] = K_ENCODED_HEADER
       /\ WrittenHeader # write_header(writer.files, writer.pack_info, writer.unpack_info)

(***************************************************************************)
(* C25: when the writer beneath a DeltaWriter takes only part of a buffer, *)
(* the bytes that reach the output are still the delta-encoding of the     *)
(* bytes the caller has been told were written, and the history of the     *)
(* filter has advanced by those bytes only.                                *)
(***************************************************************************)
C25_ShortWriteKeepsEncoding ==
    /\ delta_packed = Delta_encode(Delta_new(delta_options), delta_plain).buf
    /\ delta_writer = Delta_encode(Delta_new(delta_options), delta_plain).delta

(***************************************************************************)
(* C26: after an encoder has been finished by an empty write, a further    *)
(* flush or empty write on it returns, with success or with an error: it   *)
(* does not panic.                                                         *)
(***************************************************************************)
C26_NoPanicAfterFinish == encoder_pc = "again" => ~encoder.panic

(***************************************************************************)
(* C27: in the PPMd7 range coder range >= 2^24 holds after every           *)
(* normalization, of the decoder and of the encoder, the two-step one      *)
(* (normalize_remote) and the single-step one of the bit operations        *)
(* (normalize_1).                                                          *)
(***************************************************************************)
C27_RangeAfterNormalization ==
    rc_pc.normalized # "none" => ~U32_lt(rc.range, K_TOP_VALUE)

\* a single-step normalization has shifted, after two-step ones that had
\* shifted twice
C27_Witness ==
    /\ rc_pc.normalized = "one"
    /\ rc_pc.steps >= 2
    /\ rc.bytes >= 3
    /\ ~U32_lt(rc.range, K_TOP_VALUE)
    /\ U32_lt(rc.range, <<2, 0, 0, 0>>)

(***************************************************************************)
(* C28: after rescale every state of the rescaled context has freq >= 1    *)
(* and the states are in non-strictly decreasing order of freq.            *)
(***************************************************************************)
C28_RescaleSortsAndKeepsFreq ==
    model_pc.rescaled =>
        /\ \A i \in 1..Len(min_context.stats) : min_context.stats[i].freq >= 1
        /\ Sorted(min_context.stats)
        /\ Len(min_context.stats) = min_context.num_stats

\* rescale has run on states that were not in order, has removed one and
\* has left several
C28_Witness ==
    /\ model_pc.rescaled
    /\ ~model_pc.sorted_before
    /\ ~model_pc.collapsed
    /\ min_context.num_stats = MaxStats - 1

(***************************************************************************)
(* C29: after a model update that follows the coding of a symbol the       *)
(* context has a state of (update1_0, update1: the found state, if not the *)
(* first, changes places with the state before it when its freq has        *)
(* become the greater), the states are in order of non-increasing freq,    *)
(* as they were before it.                                                 *)
(***************************************************************************)
C29_UpdateKeepsSorted ==
    (model_pc.op \in {"update1_0", "update1"} /\ model_pc.sorted_before)
        => Sorted(min_context.stats)

(***************************************************************************)
(* C30: when rescale makes a context a single-symbol one, the freq stored  *)
(* in its one state is at most 65 (260 / 4).                               *)
(***************************************************************************)
C30_SingleSymbolFreq ==
    model_pc.collapsed => min_context.stats[1].freq <= 65

====
